---- MODULE Spec2Model ----
(***************************************************************************)
(* Settings page controller of the entry/exit dashboard (SettingsClient,   *)
(* src/unnamed/part_000 lines 155-891) and getBackendApiUrl                *)
(* (src/frontend/lib/server-config.ts).                                    *)
(*                                                                         *)
(* The component is modelled as an event-driven state machine: the React   *)
(* state cells are the variables, every event handler is one action, and   *)
(* every `await` of an async handler is a position (pc) of a task record   *)
(* so that other events interleave exactly where the event loop allows.    *)
(* The backend and the session hook (useAuthUser) are the environment.     *)
(***************************************************************************)
EXTENDS Naturals, Integers, Sequences, FiniteSets, TLC

VARIABLES
  \* ---- useAuthUser() (line 156)
  me,               \* "none" while unresolved, else the role of the identity
  loading,          \* the hook's loading flag
  error,            \* the hook's page-level error text (setError)
  sessionInvalid,   \* handleUnauthorized has seen a 401 and invalidated the session
  \* ---- props
  section,          \* SettingsClientProps.section
  mounted,          \* the component instance is mounted
  \* ---- SMTP panel (lines 158-172)
  smtpForm, smtpLoading, smtpSaving, smtpMessage,
  smtpTasks,        \* loadSmtp / saveSmtpSettings calls suspended at an await
  \* ---- Users panel (lines 174-177)
  users, usersLoading, usersMessage, newUser,
  userTasks,        \* loadUsers and user-mutation calls suspended at an await
  \* ---- the backend behind /api/proxy/users (environment)
  backend,          \* the users collection, tracked when idealBackend
  idealBackend,     \* TRUE: this page is the collection's only writer and every
                    \* request is answered 2xx; FALSE: others write too (any
                    \* list may come back) and requests may fail
  \* ---- Notifications panel (lines 179-186)
  notifyDate, notifyRunning, notifyResult, notifyMessage,
  employeeSearch, employees, selectedCardNo, employeeLoading,
  timers,           \* pending setTimeout callbacks of the search effect
  searchTasks,      \* search timer callbacks suspended at an await
  runTasks,         \* runNotifications calls suspended at an await
  \* ---- the server side (src/frontend/lib/server-config.ts)
  processEnv,       \* process.env: the three variables getBackendApiUrl reads
  apiUrl,           \* how the last call of getBackendApiUrl ended
  \* ---- observation (history) variables
  tabChanges,       \* changes of the section prop so far (saturating)
  sent,             \* the HTTP requests issued by the last step, in order
  event,            \* what the last step was, when a claim needs to know
  chainLen,         \* changes in the current chain of rapid changes (saturating)
  chainReqs,        \* employee GETs issued since the current chain began
  lastSearch,       \* search parameter of the most recent employee GET
  typedSince        \* the SMTP password was typed since the last applied load or save

authVars   == <<me, loading, error, sessionInvalid>>
smtpVars   == <<smtpForm, smtpLoading, smtpSaving, smtpMessage, smtpTasks, typedSince>>
backendVars == <<backend, idealBackend>>
usersVars  == <<users, usersLoading, usersMessage, newUser, userTasks, backendVars>>
searchVars == <<employeeSearch, employees, selectedCardNo, employeeLoading,
                timers, searchTasks, chainLen, chainReqs, lastSearch>>
runVars    == <<notifyDate, notifyRunning, notifyResult, runTasks>>
notifVars  == <<searchVars, runVars, notifyMessage>>
serverVars == <<processEnv, apiUrl>>
vars == <<authVars, section, mounted, tabChanges, smtpVars, usersVars, notifVars, sent, event,
          serverVars>>

-----------------------------------------------------------------------------
(* Bounds of the exploration *)

MaxSearchInFlight == 2   \* armed timers + search requests in flight
MaxUserTasks == 2        \* users-panel calls in flight
MaxSmtpTasks == 2        \* SMTP-panel calls in flight
MaxRunTasks == 2         \* dispatch calls in flight
MaxEmployees == 2        \* length of an employee result set
MaxUsers == 2            \* rows of the users table that are operated
TickMs == 125            \* granularity of the clock
MaxChainLen == 2         \* where the count of changes in a chain saturates
MaxEnvLen == 2           \* length of the value of an environment variable
MaxTabChanges == 1       \* where the count of changes of the section prop saturates

(* Program constants *)

DebounceMs == 250        \* setTimeout(..., 250)
DefaultPort == 587       \* initial smtpForm.port

-----------------------------------------------------------------------------
(* Values *)

Sections == {"smtp", "users", "notifications"}
Roles == {"admin", "inspector"}
Statuses == {200, 401, 500}
NetworkError == "Failed to fetch"          \* message of fetch()'s TypeError

Null == "null"                             \* null / undefined of a string-typed value
NoRecord == <<>>                           \* null of an object-typed value

\* Body of a non-2xx response as response.json().catch(() => null) yields it;
\* NoBody is what a missing or unparseable body (payload === null) gives.
NoBody == [error |-> Null, detail |-> Null]
ErrBodies == { NoBody,
               [error |-> Null, detail |-> "backend detail"],
               [error |-> "backend error", detail |-> "backend detail"] }

SearchTexts == {"", "a"}
CardNos == {"C1", "C2"}
Employee(c) == [card_no |-> c, employee_name |-> c]

\* The sequences over S of length at most n without a repeated element.
NoDupSeqs(S, n) ==
  { s \in UNION { [1..k -> S] : k \in 0..n } :
      \A i, j \in DOMAIN s : i # j => s[i] # s[j] }

\* Result sets of GET /api/proxy/employees: card numbers unique within a set.
EmployeeLists ==
  { [i \in DOMAIN s |-> Employee(s[i])] : s \in NoDupSeqs(CardNos, MaxEmployees) }

Reports == { [date |-> "2024-05-01", total_targets |-> 1, sent_count |-> 1],
             [date |-> "2024-05-01", total_targets |-> 2, sent_count |-> 0] }

RemoveAt(s, i) == SubSeq(s, 1, i - 1) \o SubSeq(s, i + 1, Len(s))
Min(a, b) == IF a < b THEN a ELSE b

-----------------------------------------------------------------------------
(* Shared helpers of every request *)

\* useAuthUser().handleUnauthorized(status): true exactly for a 401.
HandleUnauthorized(status) == status = 401

\* response.ok
Ok(status) == status >= 200 /\ status <= 299

\* payload?.error ?? payload?.detail ?? fallback
ErrorText(body, fallback) ==
  IF body.error # Null THEN body.error
  ELSE IF body.detail # Null THEN body.detail
  ELSE fallback

\* (err as Error).message || fallback
CatchText(message, fallback) == IF message = "" THEN fallback ELSE message

\* React applies a state update to a mounted component only: a setter called
\* by a continuation that outlives the component changes nothing.
SetState(cell, value) == IF mounted THEN value ELSE cell

\* The render gate (lines 506-531): which view the page shows.
View ==
  IF ~mounted THEN "unmounted"
  ELSE IF loading \/ me = "none" THEN "loading"
  ELSE IF me # "admin" THEN "denied"
  ELSE "panel"

\* The panel of section s is rendered, so its controls can be operated.
PanelShown(s) == View = "panel" /\ section = s

-----------------------------------------------------------------------------
(* Initial state: the useState initialisers, identity not yet resolved *)

InitSmtpForm ==
  [host |-> "", port |-> DefaultPort, username |-> "", password |-> "",
   from_email |-> "", from_name |-> "Oilchem Entry/Exit Admin",
   use_tls |-> TRUE, use_ssl |-> FALSE, cc_list |-> "", updated_at |-> Null]

\* A creation form whose default role is admin.
InitNewUser_Admin == [email |-> "", username |-> "", password |-> "", role |-> "admin"]

InitNewUser == [email |-> "", username |-> "", password |-> "", role |-> "inspector"]

\* The component after construction.
InitClient(tabs, ideal, collections) ==
  /\ me = "none" /\ loading = TRUE /\ error = "" /\ sessionInvalid = FALSE
  /\ section \in tabs
  /\ mounted = TRUE /\ tabChanges = 0
  /\ smtpForm = InitSmtpForm
  /\ smtpLoading = FALSE /\ smtpSaving = FALSE /\ smtpMessage = ""
  /\ smtpTasks = <<>>
  /\ users = <<>> /\ usersLoading = FALSE /\ usersMessage = ""
  /\ newUser = InitNewUser
  /\ userTasks = <<>>
  /\ idealBackend = ideal /\ backend \in collections
  /\ notifyDate = "2024-05-01"
  /\ notifyRunning = FALSE /\ notifyResult = NoRecord /\ notifyMessage = ""
  /\ employeeSearch = "" /\ employees = <<>> /\ selectedCardNo = ""
  /\ employeeLoading = FALSE
  /\ timers = <<>> /\ searchTasks = <<>> /\ runTasks = <<>>
  /\ sent = <<>> /\ event = NoRecord
  /\ chainLen = 0 /\ chainReqs = 0 /\ lastSearch = Null
  /\ typedSince = FALSE

\* undefined, as a value of a string-typed variable of process.env.
Undefined == <<"undefined">>

\* The page as the browser runs it; the server side has not been called.
InitPage(tabs, ideal, collections) ==
  /\ InitClient(tabs, ideal, collections)
  /\ processEnv = [BACKEND_API_URL |-> Undefined, API_BASE_URL |-> Undefined,
                   NEXT_PUBLIC_API_BASE_URL |-> Undefined]
  /\ apiUrl = NoRecord

\* The page opened on one of the given tabs, against a backend that others
\* write to and that may fail.
InitOn(tabs) == InitPage(tabs, FALSE, {<<>>})

\* The page opened on any tab, and on one given tab.
Init == InitOn(Sections)

InitSmtp == InitOn({"smtp"})

InitUsers == InitOn({"users"})

InitNotifications == InitOn({"notifications"})

-----------------------------------------------------------------------------
(* Requests, as the backend proxy sees them *)

ReqGetSmtp == [method |-> "GET", path |-> "/api/proxy/admin/smtp-settings"]
ReqGetUsers == [method |-> "GET", path |-> "/api/proxy/users"]
ReqGetEmployees(text) ==
  [method |-> "GET", path |-> "/api/proxy/employees", search |-> text]
\* A query that carries the card number for both scopes.
ReqRunNotifications_AlwaysCard(scope, date, cardNo) ==
  [method |-> "POST", path |-> "/api/proxy/notifications/run",
   date |-> date, card_no |-> cardNo]

\* URLSearchParams({date}) plus card_no for scope "selected"; no body.
ReqRunNotifications(scope, date, cardNo) ==
  IF scope = "selected"
  THEN [method |-> "POST", path |-> "/api/proxy/notifications/run",
        date |-> date, card_no |-> cardNo]
  ELSE [method |-> "POST", path |-> "/api/proxy/notifications/run", date |-> date]

\* What a step records about the call it finished.
Finished(kind, outcome) == [kind |-> kind, outcome |-> outcome]

-----------------------------------------------------------------------------
(* Activation effects (lines 248-309) *)

\* loadSmtp's own guard (line 194) and the guard of its effect (line 249).
LoadSmtpRuns(role) == role = "admin"
SmtpEffectRuns(sec, role) == sec = "smtp" /\ role = "admin" /\ LoadSmtpRuns(role)

\* A guard that compares against a role name that does not exist.
LoadUsersRuns_WrongRole(role) == role = "Admin"

\* loadUsers' own guard (line 222) and the guard of its effect (line 255).
LoadUsersRuns(role) == role = "admin"
UsersEffectRuns(sec, role) == sec = "users" /\ role = "admin" /\ LoadUsersRuns(role)

\* A search effect that checks the section only.
SearchActive_AnyRole(sec, role) == sec = "notifications"

\* The search effect returns early unless this holds (line 261).
SearchActive(sec, role) == sec = "notifications" /\ role = "admin"

SmtpTask(kind) == [kind |-> kind, pc |-> "fetch", status |-> 0]

\* loadSmtp up to its first await (lines 198-203).
StartLoadSmtp ==
  /\ smtpLoading' = TRUE
  /\ smtpMessage' = ""
  /\ smtpTasks' = Append(smtpTasks, SmtpTask("load"))
  /\ UNCHANGED <<smtpForm, smtpSaving, typedSince>>

SmtpEffect(runs) == IF runs THEN StartLoadSmtp ELSE UNCHANGED smtpVars

LoadUsersTask ==
  [kind |-> "loadUsers", pc |-> "reload_fetch", status |-> 0, mstatus |-> 0,
   reloads |-> 1, user |-> NoRecord, req |-> ReqGetUsers, body |-> <<>>]

\* loadUsers up to its first await (lines 226-230), called by the effect.
StartLoadUsers ==
  /\ usersLoading' = TRUE
  /\ usersMessage' = ""
  /\ userTasks' = Append(userTasks, LoadUsersTask)
  /\ UNCHANGED <<users, newUser, backendVars>>

UsersEffect(runs) == IF runs THEN StartLoadUsers ELSE UNCHANGED usersVars

\* A cleanup that forgets the pending timer.
TimersAfterCleanup_Kept(ts) == ts

\* The cleanup of the search effect (lines 305-308): clearTimeout(timer) drops
\* the timer of this effect run and controller.abort() aborts its request.
TimersAfterCleanup(ts) == <<>>

\* The calls the abort wakes: those that wait for fetch (line 271) or for a
\* body read (lines 281, 286). The promise rejects, and the catch and the
\* finally block of the call run before the turn ends. A call that waits for
\* handleUnauthorized (line 276) is not woken.
Rejected(ts) == { i \in DOMAIN ts : ts[i].pc # "unauth" }

\* The calls still pending after the cleanup, their signal aborted.
TasksAfterCleanup(ts) ==
  LET waiting == SelectSeq(ts, LAMBDA t : t.pc = "unauth")
  IN [i \in DOMAIN waiting |-> [waiting[i] EXCEPT !.aborted = TRUE]]

\* What the catch blocks of the woken calls leave in the message region: an
\* AbortError is swallowed (line 297); on the non-2xx path .catch(() => null)
\* has turned the rejection into null and the Error thrown at line 282 is
\* reported (line 298).
MessageAfterCleanup(ts) ==
  IF \E i \in Rejected(ts) : ts[i].pc = "errbody"
  THEN CatchText(ErrorText(NoBody, "Failed to load employees"), "Failed to load employees")
  ELSE notifyMessage

\* One re-run of the search effect: the previous run's cleanup (if that run
\* got past line 261) with the end of the calls it wakes, then the body of the
\* new run with the text it closes over.
SearchEffect(wasActive, isActive, text) ==
  LET ts == IF wasActive THEN TimersAfterCleanup(timers) ELSE timers
      rs == IF wasActive THEN TasksAfterCleanup(searchTasks) ELSE searchTasks
      woken == wasActive /\ Rejected(searchTasks) # {}
      \* the run comes less than DebounceMs after the previous one
      rapid == wasActive /\ \E i \in DOMAIN timers : timers[i].age < DebounceMs
  IN /\ timers' = IF isActive THEN Append(ts, [text |-> text, age |-> 0]) ELSE ts
     /\ searchTasks' = rs
     /\ notifyMessage' = IF woken THEN MessageAfterCleanup(searchTasks) ELSE notifyMessage
     /\ employeeLoading' = IF woken THEN FALSE ELSE employeeLoading
     \* a rapid run continues the chain of the previous one; any other starts one
     /\ chainReqs' = IF isActive /\ ~rapid THEN 0 ELSE chainReqs
     \* a run that activates the effect is no change of the text
     /\ chainLen' = IF ~isActive THEN chainLen
                    ELSE IF ~wasActive THEN 0
                    ELSE IF rapid THEN Min(chainLen + 1, MaxChainLen)
                    ELSE 1

EffectRequests(sec, role) ==
  (IF SmtpEffectRuns(sec, role) THEN <<ReqGetSmtp>> ELSE <<>>) \o
  (IF UsersEffectRuns(sec, role) THEN <<ReqGetUsers>> ELSE <<>>)

-----------------------------------------------------------------------------
(* Session hook: the identity resolves once *)

AuthResolve(role) ==
  /\ mounted
  /\ me = "none" /\ loading
  /\ me' = role /\ loading' = FALSE
  /\ error' = IF SmtpEffectRuns(section, role) THEN "" ELSE error
  /\ SmtpEffect(SmtpEffectRuns(section, role))
  /\ UsersEffect(UsersEffectRuns(section, role))
  /\ SearchEffect(FALSE, SearchActive(section, role), employeeSearch)
  /\ sent' = EffectRequests(section, role)
  /\ event' = NoRecord
  /\ UNCHANGED <<sessionInvalid, section, mounted, tabChanges, serverVars, employeeSearch,
                 employees, selectedCardNo, lastSearch, runVars>>

AuthFail ==
  /\ mounted
  /\ me = "none" /\ loading
  /\ loading' = FALSE
  /\ sent' = <<>> /\ event' = NoRecord
  /\ UNCHANGED <<me, error, sessionInvalid, section, mounted, tabChanges, serverVars, smtpVars, usersVars, notifVars>>

-----------------------------------------------------------------------------
(* Notifications panel: debounced employee search (lines 260-309) *)

TimerDue == \E i \in DOMAIN timers : timers[i].age >= DebounceMs

\* onChange of the search box (line 795); the effect re-runs on the new text.
\* A timer that is due but whose callback has not run yet is cleared like any
\* other: nothing orders the callback before the input event.
SetEmployeeSearch(t) ==
  /\ PanelShown("notifications")
  /\ t # employeeSearch
  /\ Len(searchTasks) < MaxSearchInFlight
  /\ employeeSearch' = t
  /\ SearchEffect(SearchActive(section, me), SearchActive(section, me), t)
  /\ sent' = <<>> /\ event' = NoRecord
  /\ UNCHANGED <<authVars, section, mounted, tabChanges, serverVars, smtpVars, usersVars,
                 employees, selectedCardNo, lastSearch, runVars>>

\* Time passes while a timer is pending.
Tick ==
  /\ timers # <<>>
  /\ ~TimerDue
  /\ timers' = [i \in DOMAIN timers |->
                  [timers[i] EXCEPT !.age = Min(@ + TickMs, DebounceMs)]]
  /\ sent' = <<>> /\ event' = NoRecord
  /\ UNCHANGED <<authVars, section, mounted, tabChanges, serverVars, smtpVars, usersVars, employeeSearch, employees,
                 selectedCardNo, employeeLoading, searchTasks, chainLen, chainReqs, lastSearch,
                 runVars, notifyMessage>>

\* The timer callback up to its first await (lines 266-274).
FireTimer(i) ==
  /\ i \in DOMAIN timers
  /\ timers[i].age >= DebounceMs
  /\ employeeLoading' = TRUE
  /\ notifyMessage' = ""
  /\ sent' = <<ReqGetEmployees(timers[i].text)>>
  /\ searchTasks' = Append(searchTasks, [pc |-> "fetch", status |-> 0, aborted |-> FALSE])
  /\ timers' = RemoveAt(timers, i)
  /\ chainReqs' = chainReqs + 1
  /\ lastSearch' = timers[i].text
  /\ event' = NoRecord
  /\ UNCHANGED <<authVars, section, mounted, tabChanges, serverVars, smtpVars, usersVars, employeeSearch, employees,
                 selectedCardNo, chainLen, runVars>>

\* An updater that always falls back to the first result.
NextSelected_First(current, list) ==
  IF Len(list) = 0 THEN "" ELSE list[1].card_no

\* The setSelectedCardNo updater (lines 287-295).
NextSelected(current, list) ==
  IF Len(list) = 0 THEN ""
  ELSE IF current = "" THEN list[1].card_no
  ELSE IF \E k \in DOMAIN list : list[k].card_no = current THEN current
  ELSE list[1].card_no

\* A callback that returns early on an abort, past its cleanup.
SearchFinally_KeepOnAbort(i, outcome) ==
  /\ employeeLoading' = IF outcome = "aborted" THEN employeeLoading ELSE FALSE
  /\ searchTasks' = RemoveAt(searchTasks, i)
  /\ event' = Finished("search", outcome)

\* The finally block (line 301) and the end of the call.
SearchFinally(i, outcome) ==
  /\ employeeLoading' = SetState(employeeLoading, FALSE)
  /\ searchTasks' = RemoveAt(searchTasks, i)
  /\ event' = Finished("search", outcome)

\* await fetch(...) settles (line 271); the signal is not aborted, or the
\* cleanup would have ended the call.
SearchFetchSettle(i) ==
  /\ i \in DOMAIN searchTasks /\ searchTasks[i].pc = "fetch"
  /\ sent' = <<>>
  /\ \/ /\ notifyMessage' = SetState(notifyMessage,
                                     CatchText(NetworkError, "Failed to load employees"))
        /\ SearchFinally(i, "failed")
     \/ \E st \in Statuses :
          /\ searchTasks' = [searchTasks EXCEPT ![i].pc = "unauth", ![i].status = st]
          /\ event' = NoRecord
          /\ UNCHANGED <<notifyMessage, employeeLoading>>
  /\ UNCHANGED <<authVars, section, mounted, tabChanges, serverVars, smtpVars, usersVars,
                 employeeSearch, employees, selectedCardNo, timers, chainLen, chainReqs,
                 lastSearch, runVars>>

\* await handleUnauthorized(response.status) settles (lines 276-286). When the
\* signal was aborted meanwhile, the body read the call goes on to rejects at
\* once and the call ends in this turn: on the 2xx path with the AbortError
\* swallowed (line 297), on the non-2xx path with .catch(() => null) and the
\* Error of line 282 reported (line 298).
SearchUnauthSettle(i) ==
  /\ i \in DOMAIN searchTasks /\ searchTasks[i].pc = "unauth"
  /\ sent' = <<>>
  /\ IF HandleUnauthorized(searchTasks[i].status)
     THEN /\ sessionInvalid' = TRUE
          /\ SearchFinally(i, "unauthorized")
          /\ UNCHANGED notifyMessage
     ELSE IF ~searchTasks[i].aborted
     THEN /\ searchTasks' = [searchTasks EXCEPT
               ![i].pc = IF Ok(searchTasks[i].status) THEN "body" ELSE "errbody"]
          /\ event' = NoRecord
          /\ UNCHANGED <<sessionInvalid, employeeLoading, notifyMessage>>
     ELSE IF Ok(searchTasks[i].status)
     THEN /\ SearchFinally(i, "aborted")
          /\ UNCHANGED <<sessionInvalid, notifyMessage>>
     ELSE /\ notifyMessage' = SetState(notifyMessage,
                                       CatchText(ErrorText(NoBody, "Failed to load employees"),
                                                 "Failed to load employees"))
          /\ SearchFinally(i, "failed")
          /\ UNCHANGED sessionInvalid
  /\ UNCHANGED <<me, loading, error, section, mounted, tabChanges, serverVars, smtpVars,
                 usersVars, employeeSearch, employees, selectedCardNo, timers, chainLen,
                 chainReqs, lastSearch, runVars>>

\* await response.json().catch(() => null) settles on the non-2xx path (lines
\* 281-282, 298).
SearchErrBodySettle(i) ==
  /\ i \in DOMAIN searchTasks /\ searchTasks[i].pc = "errbody"
  /\ sent' = <<>>
  /\ \E body \in ErrBodies :
       notifyMessage' = SetState(notifyMessage,
                                 CatchText(ErrorText(body, "Failed to load employees"),
                                           "Failed to load employees"))
  /\ SearchFinally(i, "failed")
  /\ UNCHANGED <<authVars, section, mounted, tabChanges, serverVars, smtpVars, usersVars,
                 employeeSearch, employees, selectedCardNo, timers, chainLen, chainReqs,
                 lastSearch, runVars>>

\* await response.json() settles on the 2xx path (lines 285-295).
SearchBodySettle(i) ==
  /\ i \in DOMAIN searchTasks /\ searchTasks[i].pc = "body"
  /\ sent' = <<>>
  /\ \E list \in EmployeeLists :
       /\ employees' = SetState(employees, list)
       /\ selectedCardNo' = SetState(selectedCardNo, NextSelected(selectedCardNo, list))
       /\ SearchFinally(i, "applied")
  /\ UNCHANGED <<authVars, section, mounted, tabChanges, serverVars, smtpVars, usersVars,
                 employeeSearch, timers, chainLen, chainReqs, lastSearch, runVars, notifyMessage>>

SearchStep(i) ==
  \/ SearchFetchSettle(i) \/ SearchUnauthSettle(i)
  \/ SearchErrBodySettle(i) \/ SearchBodySettle(i)

\* onChange of the employee <select> (lines 799-809): one of its options.
SelectEmployee(c) ==
  /\ PanelShown("notifications")
  /\ \E k \in DOMAIN employees : employees[k].card_no = c
  /\ c # selectedCardNo
  /\ selectedCardNo' = c
  /\ sent' = <<>> /\ event' = NoRecord
  /\ UNCHANGED <<authVars, section, mounted, tabChanges, serverVars, smtpVars, usersVars, employeeSearch, employees,
                 employeeLoading, timers, searchTasks, chainLen, chainReqs, lastSearch, runVars,
                 notifyMessage>>

\* What the date input can hold: a day, or "" once it is cleared (line 786).
NotifyDates == {"2024-05-01", "2024-05-02", ""}

\* onChange of the date input (line 787).
SetNotifyDate(d) ==
  /\ PanelShown("notifications")
  /\ d # notifyDate
  /\ notifyDate' = d
  /\ sent' = <<>> /\ event' = NoRecord
  /\ UNCHANGED <<authVars, section, mounted, tabChanges, serverVars, smtpVars, usersVars, searchVars, notifyRunning,
                 notifyResult, runTasks, notifyMessage>>

-----------------------------------------------------------------------------
(* Notifications panel: dispatch (lines 470-504, 813-829) *)

ValidationMessage == "Select an employee to send selected notification."

\* Dispatch buttons that stay enabled while a run is pending.
RunDisabled_Never(scope) == FALSE

\* disabled= of the two dispatch buttons (lines 817, 825).
RunDisabled(scope) ==
  IF scope = "selected" THEN notifyRunning \/ selectedCardNo = "" ELSE notifyRunning

\* A handler that leaves the previous report in place when it starts.
RunNotifications_KeepReport(scope) ==
  /\ notifyResult' = notifyResult
  /\ IF scope = "selected" /\ selectedCardNo = ""
     THEN /\ notifyMessage' = CatchText(ValidationMessage, "Failed to run notifications")
          /\ notifyRunning' = FALSE
          /\ sent' = <<>>
          /\ event' = Finished("run", "invalid")
          /\ UNCHANGED runTasks
     ELSE /\ notifyMessage' = ""
          /\ notifyRunning' = TRUE
          /\ sent' = <<ReqRunNotifications(scope, notifyDate, selectedCardNo)>>
          /\ event' = NoRecord
          /\ runTasks' = Append(runTasks, [pc |-> "fetch", status |-> 0])
  /\ UNCHANGED <<authVars, section, mounted, tabChanges, serverVars, smtpVars, usersVars, searchVars, notifyDate>>

\* A handler without the validation of lines 478-480.
RunNotifications_Unchecked(scope) ==
  /\ notifyResult' = NoRecord
  /\ notifyMessage' = ""
  /\ notifyRunning' = TRUE
  /\ sent' = <<ReqRunNotifications(scope, notifyDate, selectedCardNo)>>
  /\ event' = NoRecord
  /\ runTasks' = Append(runTasks, [pc |-> "fetch", status |-> 0])
  /\ UNCHANGED <<authVars, section, mounted, tabChanges, serverVars, smtpVars, usersVars, searchVars, notifyDate>>

\* runNotifications(scope) up to its first await, or to its end when the
\* validation throws before any request (lines 471-486, 499-503).
RunNotifications(scope) ==
  /\ notifyResult' = NoRecord
  /\ IF scope = "selected" /\ selectedCardNo = ""
     THEN /\ notifyMessage' = CatchText(ValidationMessage, "Failed to run notifications")
          /\ notifyRunning' = FALSE
          /\ sent' = <<>>
          /\ event' = Finished("run", "invalid")
          /\ UNCHANGED runTasks
     ELSE /\ notifyMessage' = ""
          /\ notifyRunning' = TRUE
          /\ sent' = <<ReqRunNotifications(scope, notifyDate, selectedCardNo)>>
          /\ event' = NoRecord
          /\ runTasks' = Append(runTasks, [pc |-> "fetch", status |-> 0])
  /\ UNCHANGED <<authVars, section, mounted, tabChanges, serverVars, smtpVars, usersVars, searchVars, notifyDate>>

\* A click on an enabled dispatch button.
ClickRun(scope) ==
  /\ PanelShown("notifications")
  /\ ~RunDisabled(scope)
  /\ RunNotifications(scope)

\* runNotifications("selected") called directly, bypassing the button's
\* disabled attribute (line 817).
InvokeRunSelected ==
  /\ PanelShown("notifications")
  /\ Len(runTasks) < MaxRunTasks
  /\ RunNotifications("selected")

\* A finally block that touches the panel only while it is the active one.
RunFinally_OnlyWhenActive(i, outcome) ==
  /\ notifyRunning' = IF section = "notifications" THEN FALSE ELSE notifyRunning
  /\ runTasks' = RemoveAt(runTasks, i)
  /\ event' = Finished("run", outcome)

\* The finally block (line 502) and the end of the call.
RunFinally(i, outcome) ==
  /\ notifyRunning' = SetState(notifyRunning, FALSE)
  /\ runTasks' = RemoveAt(runTasks, i)
  /\ event' = Finished("run", outcome)

RunFetchSettle(i) ==
  /\ i \in DOMAIN runTasks /\ runTasks[i].pc = "fetch"
  /\ sent' = <<>>
  /\ \/ /\ notifyMessage' = SetState(notifyMessage,
                                     CatchText(NetworkError, "Failed to run notifications"))
        /\ RunFinally(i, "failed")
     \/ \E st \in Statuses :
          /\ runTasks' = [runTasks EXCEPT ![i].pc = "unauth", ![i].status = st]
          /\ event' = NoRecord
          /\ UNCHANGED <<notifyMessage, notifyRunning>>
  /\ UNCHANGED <<authVars, section, mounted, tabChanges, serverVars, smtpVars, usersVars, searchVars, notifyDate,
                 notifyResult>>

RunUnauthSettle(i) ==
  /\ i \in DOMAIN runTasks /\ runTasks[i].pc = "unauth"
  /\ sent' = <<>>
  /\ IF HandleUnauthorized(runTasks[i].status)
     THEN /\ sessionInvalid' = TRUE
          /\ RunFinally(i, "unauthorized")
     ELSE /\ runTasks' = [runTasks EXCEPT
               ![i].pc = IF Ok(runTasks[i].status) THEN "body" ELSE "errbody"]
          /\ event' = NoRecord
          /\ UNCHANGED <<sessionInvalid, notifyRunning>>
  /\ UNCHANGED <<me, loading, error, section, mounted, tabChanges, serverVars, smtpVars, usersVars, searchVars,
                 notifyDate, notifyResult, notifyMessage>>

RunErrBodySettle(i) ==
  /\ i \in DOMAIN runTasks /\ runTasks[i].pc = "errbody"
  /\ sent' = <<>>
  /\ \E body \in ErrBodies :
       notifyMessage' = SetState(notifyMessage,
                                 CatchText(ErrorText(body, "Failed to run notifications"),
                                           "Failed to run notifications"))
  /\ RunFinally(i, "failed")
  /\ UNCHANGED <<authVars, section, mounted, tabChanges, serverVars, smtpVars, usersVars, searchVars, notifyDate,
                 notifyResult>>

RunBodySettle(i) ==
  /\ i \in DOMAIN runTasks /\ runTasks[i].pc = "body"
  /\ sent' = <<>>
  /\ \E report \in Reports : notifyResult' = SetState(notifyResult, report)
  /\ RunFinally(i, "applied")
  /\ UNCHANGED <<authVars, section, mounted, tabChanges, serverVars, smtpVars, usersVars, searchVars, notifyDate,
                 notifyMessage>>

RunStep(i) ==
  \/ RunFetchSettle(i) \/ RunUnauthSettle(i)
  \/ RunErrBodySettle(i) \/ RunBodySettle(i)

-----------------------------------------------------------------------------
(* SMTP panel (lines 193-219, 311-339, 556-659) *)

\* Bodies of a 2xx answer of GET/PUT /admin/smtp-settings. The type says the
\* password is omitted; nothing at run time stops a body from carrying one.
SmtpPayloads ==
  { [host |-> "smtp.example.com", port |-> 25, updated_at |-> "t1"],
    [host |-> "smtp.example.com", port |-> 25, updated_at |-> "t1",
     password |-> "from-backend"] }

\* What the operator can type into the form (lines 563-625).
SmtpEdits == { <<"host", "smtp2.example.com">>, <<"password", "typed">>,
               <<"password", "">> }

\* A merge that trusts the response for the password as well.
MergeForm_KeepPassword(current, payload) ==
  [f \in DOMAIN current \cup DOMAIN payload |->
     IF f \in DOMAIN payload THEN payload[f] ELSE current[f]]

\* (current) => ({ ...current, ...payload, password: "" })  (lines 213, 332)
MergeForm(current, payload) ==
  [f \in DOMAIN current \cup DOMAIN payload |->
     IF f = "password" THEN ""
     ELSE IF f \in DOMAIN payload THEN payload[f] ELSE current[f]]

\* onChange of a text input of the form.
EditSmtp(f, v) ==
  /\ PanelShown("smtp")
  /\ smtpForm[f] # v
  /\ smtpForm' = [smtpForm EXCEPT ![f] = v]
  /\ typedSince' = IF f = "password" THEN TRUE ELSE typedSince
  /\ sent' = <<>> /\ event' = NoRecord
  /\ UNCHANGED <<authVars, section, mounted, tabChanges, serverVars, smtpLoading, smtpSaving, smtpMessage, smtpTasks,
                 usersVars, notifVars>>

\* A save button that is never disabled.
SaveDisabled_Never == FALSE

\* disabled={smtpSaving} of the save button (line 651).
SaveDisabled == smtpSaving

\* A request body that leaves the password out.
ReqPutSmtp_NoPassword(form) ==
  [method |-> "PUT", path |-> "/api/proxy/admin/smtp-settings",
   body |-> [f \in DOMAIN form \ {"password"} |-> form[f]]]

\* fetch(..., { method: "PUT", body: JSON.stringify(smtpForm) })  (lines 316-320)
ReqPutSmtp(form) ==
  [method |-> "PUT", path |-> "/api/proxy/admin/smtp-settings", body |-> form]

\* A click on the enabled save button: saveSmtpSettings up to its first await
\* (lines 312-320).
ClickSaveSmtp ==
  /\ PanelShown("smtp")
  /\ ~SaveDisabled
  /\ smtpSaving' = TRUE
  /\ smtpMessage' = ""
  /\ sent' = <<ReqPutSmtp(smtpForm)>>
  /\ smtpTasks' = Append(smtpTasks, SmtpTask("save"))
  /\ event' = NoRecord
  /\ UNCHANGED <<authVars, section, mounted, tabChanges, serverVars, smtpForm, smtpLoading, typedSince, usersVars,
                 notifVars>>

SmtpFallback(kind) ==
  IF kind = "load" THEN "Failed to load SMTP settings" ELSE "Failed to save SMTP settings"

\* A catch block that reports a failed save through setError as well.
SmtpCatch_ToBanner(kind, message) ==
  error' = CatchText(message, SmtpFallback(kind)) /\ UNCHANGED smtpMessage

\* The catch block: loadSmtp reports through setError (line 215),
\* saveSmtpSettings through setSmtpMessage (line 335).
SmtpCatch(kind, message) ==
  IF kind = "load"
  THEN error' = SetState(error, CatchText(message, SmtpFallback(kind))) /\ UNCHANGED smtpMessage
  ELSE smtpMessage' = SetState(smtpMessage, CatchText(message, SmtpFallback(kind))) /\ UNCHANGED error

\* The finally block (lines 217, 337) and the end of the call.
SmtpFinally(i, outcome) ==
  /\ IF smtpTasks[i].kind = "load"
     THEN smtpLoading' = SetState(smtpLoading, FALSE) /\ UNCHANGED smtpSaving
     ELSE smtpSaving' = SetState(smtpSaving, FALSE) /\ UNCHANGED smtpLoading
  /\ smtpTasks' = RemoveAt(smtpTasks, i)
  /\ event' = [kind |-> smtpTasks[i].kind, outcome |-> outcome,
               typed |-> smtpForm.password # ""]

SmtpFetchSettle(i) ==
  /\ i \in DOMAIN smtpTasks /\ smtpTasks[i].pc = "fetch"
  /\ sent' = <<>>
  /\ \/ /\ SmtpCatch(smtpTasks[i].kind, NetworkError)
        /\ SmtpFinally(i, "failed")
     \/ \E st \in Statuses :
          /\ smtpTasks' = [smtpTasks EXCEPT ![i].pc = "unauth", ![i].status = st]
          /\ event' = NoRecord
          /\ UNCHANGED <<error, smtpMessage, smtpLoading, smtpSaving>>
  /\ UNCHANGED <<me, loading, sessionInvalid, section, mounted, tabChanges, serverVars, smtpForm, typedSince, usersVars,
                 notifVars>>

SmtpUnauthSettle(i) ==
  /\ i \in DOMAIN smtpTasks /\ smtpTasks[i].pc = "unauth"
  /\ sent' = <<>>
  /\ IF HandleUnauthorized(smtpTasks[i].status)
     THEN /\ sessionInvalid' = TRUE
          /\ SmtpFinally(i, "unauthorized")
     ELSE /\ smtpTasks' = [smtpTasks EXCEPT
               ![i].pc = IF Ok(smtpTasks[i].status) THEN "body" ELSE "errbody"]
          /\ event' = NoRecord
          /\ UNCHANGED <<sessionInvalid, smtpLoading, smtpSaving>>
  /\ UNCHANGED <<me, loading, error, section, mounted, tabChanges, serverVars, smtpForm, smtpMessage, typedSince,
                 usersVars, notifVars>>

SmtpErrBodySettle(i) ==
  /\ i \in DOMAIN smtpTasks /\ smtpTasks[i].pc = "errbody"
  /\ sent' = <<>>
  /\ \E body \in ErrBodies :
       SmtpCatch(smtpTasks[i].kind, ErrorText(body, SmtpFallback(smtpTasks[i].kind)))
  /\ SmtpFinally(i, "failed")
  /\ UNCHANGED <<me, loading, sessionInvalid, section, mounted, tabChanges, serverVars, smtpForm, typedSince, usersVars,
                 notifVars>>

\* The 2xx path (lines 212-213, 331-333).
SmtpBodySettle(i) ==
  /\ i \in DOMAIN smtpTasks /\ smtpTasks[i].pc = "body"
  /\ sent' = <<>>
  /\ \E payload \in SmtpPayloads : smtpForm' = SetState(smtpForm, MergeForm(smtpForm, payload))
  /\ smtpMessage' = IF smtpTasks[i].kind = "save"
                    THEN SetState(smtpMessage, "SMTP settings saved.") ELSE smtpMessage
  /\ typedSince' = SetState(typedSince, FALSE)
  /\ SmtpFinally(i, "applied")
  /\ UNCHANGED <<authVars, section, mounted, tabChanges, serverVars, usersVars, notifVars>>

SmtpStep(i) ==
  \/ SmtpFetchSettle(i) \/ SmtpUnauthSettle(i)
  \/ SmtpErrBodySettle(i) \/ SmtpBodySettle(i)

-----------------------------------------------------------------------------
(* Users panel (lines 221-246, 341-468, 661-777) *)

User(id, name, role, active) ==
  [id |-> id, username |-> name, role |-> role, is_active |-> active]

\* Bodies ({ users }) of a 2xx answer of GET /api/proxy/users.
UserLists ==
  { <<>>,
    << User(1, "alice", "inspector", TRUE) >>,
    << User(1, "alice", "admin", FALSE), User(2, "bob", "inspector", TRUE) >> }

\* What the operator can type into the creation form (lines 664-693).
NewUserEdits == { <<"email", "carol@example.com">>, <<"username", "carol">>,
                  <<"password", "secret">>, <<"role", "admin">> }

ReqCreateUser(form) == [method |-> "POST", path |-> "/api/proxy/users", body |-> form]
ReqPatchUser(id, payload) ==
  [method |-> "PATCH", path |-> "/api/proxy/users/{id}", id |-> id, body |-> payload]
ReqResetLink(id) ==
  [method |-> "POST", path |-> "/api/proxy/users/{id}/reset-link", id |-> id]
ReqDeleteUser(id) == [method |-> "DELETE", path |-> "/api/proxy/users/{id}", id |-> id]

\* The backend's side of the users resource (interface table of the
\* specification): what a row looks like after a PATCH with the given body,
\* and the collection after a 2xx mutation.
Patched(u, payload) ==
  [u EXCEPT !.role = IF "role" \in DOMAIN payload THEN payload.role ELSE @,
            !.is_active = IF "is_active" \in DOMAIN payload THEN payload.is_active ELSE @]

BackendAfter(b, request) ==
  CASE request.method = "PATCH" ->
         [k \in DOMAIN b |-> IF b[k].id = request.id THEN Patched(b[k], request.body)
                             ELSE b[k]]
    [] request.method = "DELETE" -> SelectSeq(b, LAMBDA u : u.id # request.id)
    [] request.method = "POST" /\ request.path = "/api/proxy/users" ->
         Append(b, User(3, request.body.username, request.body.role, TRUE))
    [] OTHER -> b

\* The status lines the backend answers with.
AnswerStatuses == IF idealBackend THEN {200} ELSE Statuses

\* The users arrays a 2xx GET /api/proxy/users can carry for a reload: the
\* collection as it was when the request was answered, or any list when
\* others write to the collection too.
GetUsersBodies(task) == IF idealBackend THEN {task.body} ELSE UserLists

\* The handlers that go through patchUser, and those that end with loadUsers.
PatchKinds == {"changeUserRole", "toggleUser", "resetPassword"}
ReloadingKinds == PatchKinds \cup {"createUser", "deleteUserRow"}

\* Text of the Error thrown on a non-2xx answer when the body names none.
ThrowFallback(kind) ==
  CASE kind = "createUser" -> "Failed to create user"
    [] kind \in PatchKinds -> "Failed to update user"
    [] kind = "createResetLink" -> "Failed to generate reset link"
    [] kind = "deleteUserRow" -> "Failed to delete user"
    [] OTHER -> "Failed to load users"

\* Fallback of the handler's catch block.
CatchFallback(kind) ==
  CASE kind = "createUser" -> "Failed to create user"
    [] kind = "changeUserRole" -> "Failed to update role"
    [] kind = "toggleUser" -> "Failed to update user status"
    [] kind = "resetPassword" -> "Failed to update password"
    [] kind = "createResetLink" -> "Failed to generate reset link"
    [] kind = "deleteUserRow" -> "Failed to delete user"
    [] OTHER -> "Failed to load users"

\* The template strings of the success messages, for the user names in use.
SuccessText(kind, user) ==
  LET alice == user # NoRecord /\ user.username = "alice" IN
  CASE kind = "createUser" -> "User created."
    [] kind = "changeUserRole" ->
         IF alice THEN "Updated role for alice." ELSE "Updated role for bob."
    [] kind = "toggleUser" ->
         IF user.is_active
         THEN (IF alice THEN "User alice disabled." ELSE "User bob disabled.")
         ELSE (IF alice THEN "User alice enabled." ELSE "User bob enabled.")
    [] kind = "resetPassword" ->
         IF alice THEN "Password updated for alice." ELSE "Password updated for bob."
    [] kind = "createResetLink" ->
         IF alice THEN "Reset link generated for alice: https://reset/1"
         ELSE "Reset link generated for bob: https://reset/2"
    [] kind = "deleteUserRow" ->
         IF alice THEN "Deleted user alice." ELSE "Deleted user bob."

\* A call of a users-panel handler suspended at its first fetch: the row it
\* was called with, the request it sent, and later the body of its reload.
UserTask(kind, user, request) ==
  [kind |-> kind, pc |-> "fetch", status |-> 0, mstatus |-> 0, reloads |-> 0,
   user |-> user, req |-> request, body |-> <<>>]

\* Handlers that also take a deleted row out of the displayed list at once.
StartUserTask_LocalPatch(kind, user, request) ==
  /\ PanelShown("users")
  /\ Len(userTasks) < MaxUserTasks
  /\ usersMessage' = ""
  /\ sent' = <<request>>
  /\ userTasks' = Append(userTasks, UserTask(kind, user, request))
  /\ event' = NoRecord
  /\ users' = IF kind = "deleteUserRow"
              THEN SelectSeq(users, LAMBDA u : u.id # user.id) ELSE users
  /\ UNCHANGED <<authVars, section, mounted, tabChanges, serverVars, smtpVars, usersLoading, newUser, backendVars,
                 notifVars>>

\* The part every handler shares: setUsersMessage(""), then the request.
StartUserTask(kind, user, request) ==
  /\ PanelShown("users")
  /\ Len(userTasks) < MaxUserTasks
  /\ usersMessage' = ""
  /\ sent' = <<request>>
  /\ userTasks' = Append(userTasks, UserTask(kind, user, request))
  /\ event' = NoRecord
  /\ UNCHANGED <<authVars, section, mounted, tabChanges, serverVars, smtpVars, users, usersLoading, newUser, backendVars,
                 notifVars>>

\* onChange of a field of the creation form.
EditNewUser(f, v) ==
  /\ PanelShown("users")
  /\ newUser[f] # v
  /\ newUser' = [newUser EXCEPT ![f] = v]
  /\ sent' = <<>> /\ event' = NoRecord
  /\ UNCHANGED <<authVars, section, mounted, tabChanges, serverVars, smtpVars, users, usersLoading, usersMessage,
                 userTasks, backendVars, notifVars>>

\* onSubmit of the creation form (lines 341-350); the inputs are `required`.
SubmitCreateUser ==
  /\ newUser.email # "" /\ newUser.username # "" /\ newUser.password # ""
  /\ StartUserTask("createUser", NoRecord, ReqCreateUser(newUser))

\* onChange of a row's role <select> (lines 388-391, 722-725).
ChangeUserRole(k, role) ==
  /\ k \in DOMAIN users
  /\ role # users[k].role
  /\ StartUserTask("changeUserRole", users[k], ReqPatchUser(users[k].id, [role |-> role]))

\* The Enable/Disable button (lines 399-402, 734-740).
ToggleUser(k) ==
  /\ k \in DOMAIN users
  /\ StartUserTask("toggleUser", users[k],
                   ReqPatchUser(users[k].id, [is_active |-> ~users[k].is_active]))

\* A handler that clears the message before it asks.
Dismissed_ClearsMessage(kind) ==
  /\ PanelShown("users")
  /\ sent' = <<>>
  /\ event' = Finished(kind, "dismissed")
  /\ usersMessage' = ""
  /\ UNCHANGED <<authVars, section, mounted, tabChanges, serverVars, smtpVars, users, usersLoading, newUser, userTasks,
                 backendVars, notifVars>>

\* Nothing happens when the prompt or the confirmation is dismissed.
Dismissed(kind) ==
  /\ PanelShown("users")
  /\ sent' = <<>>
  /\ event' = Finished(kind, "dismissed")
  /\ UNCHANGED <<authVars, section, mounted, tabChanges, serverVars, smtpVars, usersVars, notifVars>>

\* The Temp Password button (lines 410-418); answer is what window.prompt
\* returned, "" standing for both the empty string and null.
ResetPassword(k, answer) ==
  /\ k \in DOMAIN users
  /\ IF answer = ""
     THEN Dismissed("resetPassword")
     ELSE StartUserTask("resetPassword", users[k],
                        ReqPatchUser(users[k].id, [password |-> answer]))

\* The Reset Link button (lines 426-430).
CreateResetLink(k) ==
  /\ k \in DOMAIN users
  /\ StartUserTask("createResetLink", users[k], ReqResetLink(users[k].id))

\* The Delete button (lines 446-454).
DeleteUserRow(k, confirmed) ==
  /\ k \in DOMAIN users
  /\ IF ~confirmed
     THEN Dismissed("deleteUserRow")
     ELSE StartUserTask("deleteUserRow", users[k], ReqDeleteUser(users[k].id))

\* The end of a handler call.
UserDone(i, outcome) ==
  /\ userTasks' = RemoveAt(userTasks, i)
  /\ event' = [kind |-> userTasks[i].kind, outcome |-> outcome,
               mstatus |-> userTasks[i].mstatus, reloads |-> userTasks[i].reloads]

\* A handler that ends on its success text without reloading the list.
SuccessThenReload_NoReload(i) ==
  LET t == userTasks[i] IN
  /\ newUser' = IF t.kind = "createUser" THEN SetState(newUser, InitNewUser) ELSE newUser
  /\ usersMessage' = SetState(usersMessage, SuccessText(t.kind, t.user))
  /\ sent' = <<>>
  /\ UserDone(i, "no reload")
  /\ UNCHANGED usersLoading

\* A reload that leaves the message of its caller in place.
SuccessThenReload_KeepText(i) ==
  LET t == userTasks[i] IN
  /\ newUser' = IF t.kind = "createUser" THEN InitNewUser ELSE newUser
  /\ usersMessage' = SuccessText(t.kind, t.user)
  /\ IF LoadUsersRuns(me)
     THEN /\ usersLoading' = TRUE
          /\ sent' = <<ReqGetUsers>>
          /\ userTasks' = [userTasks EXCEPT ![i].pc = "reload_fetch", ![i].status = 0,
                                            ![i].reloads = @ + 1]
          /\ event' = NoRecord
     ELSE /\ sent' = <<>>
          /\ UserDone(i, "no reload")
          /\ UNCHANGED usersLoading

\* The success path of a handler that reloads: its message, then loadUsers up
\* to its first await (lines 222-230), all in one synchronous run, so the
\* message loadUsers writes is the one that stays.
SuccessThenReload(i) ==
  LET t == userTasks[i] IN
  /\ newUser' = IF t.kind = "createUser" THEN SetState(newUser, InitNewUser) ELSE newUser
  /\ IF LoadUsersRuns(me)
     THEN /\ usersLoading' = SetState(usersLoading, TRUE)
          /\ usersMessage' = SetState(usersMessage, "")
          /\ sent' = <<ReqGetUsers>>
          /\ userTasks' = [userTasks EXCEPT ![i].pc = "reload_fetch", ![i].status = 0,
                                            ![i].reloads = @ + 1]
          /\ event' = NoRecord
     ELSE /\ usersMessage' = SetState(usersMessage, SuccessText(t.kind, t.user))
          /\ sent' = <<>>
          /\ UserDone(i, "no reload")
          /\ UNCHANGED usersLoading

\* await fetch(...) of the mutating request settles.
UserFetchSettle(i) ==
  /\ i \in DOMAIN userTasks /\ userTasks[i].pc = "fetch"
  /\ sent' = <<>>
  /\ \/ /\ ~idealBackend
        /\ usersMessage' = SetState(usersMessage,
                                    CatchText(NetworkError, CatchFallback(userTasks[i].kind)))
        /\ UserDone(i, "failed")
        /\ UNCHANGED backend
     \/ \E st \in AnswerStatuses :
          /\ userTasks' = [userTasks EXCEPT ![i].pc = "unauth", ![i].status = st,
                                            ![i].mstatus = st]
          /\ backend' = IF idealBackend /\ Ok(st)
                        THEN BackendAfter(backend, userTasks[i].req) ELSE backend
          /\ event' = NoRecord
          /\ UNCHANGED usersMessage
  /\ UNCHANGED <<authVars, section, mounted, tabChanges, serverVars, smtpVars, users, usersLoading, newUser, idealBackend,
                 notifVars>>

\* await handleUnauthorized(response.status) settles. createUser,
\* createResetLink and deleteUserRow return on true (lines 352, 431, 455);
\* patchUser returns false (line 377) and its three callers go on to their
\* success message and reload whatever it returned (lines 391-393, 402-404,
\* 418-420).
UserUnauthSettle(i) ==
  LET t == userTasks[i]
      unauthorized == HandleUnauthorized(t.status)
  IN
  /\ i \in DOMAIN userTasks /\ t.pc = "unauth"
  /\ sessionInvalid' = (sessionInvalid \/ unauthorized)
  /\ IF unauthorized /\ t.kind \notin PatchKinds
     THEN /\ sent' = <<>>
          /\ UserDone(i, "unauthorized")
          /\ UNCHANGED <<usersLoading, usersMessage, newUser>>
     ELSE IF ~unauthorized /\ ~Ok(t.status)
     THEN /\ sent' = <<>>
          /\ userTasks' = [userTasks EXCEPT ![i].pc = "errbody"]
          /\ event' = NoRecord
          /\ UNCHANGED <<usersLoading, usersMessage, newUser>>
     ELSE IF t.kind = "createResetLink"
     THEN /\ sent' = <<>>
          /\ userTasks' = [userTasks EXCEPT ![i].pc = "body"]
          /\ event' = NoRecord
          /\ UNCHANGED <<usersLoading, usersMessage, newUser>>
     ELSE SuccessThenReload(i)
  /\ UNCHANGED <<me, loading, error, section, mounted, tabChanges, serverVars, smtpVars, users, backendVars, notifVars>>

\* The non-2xx path: the Error thrown from the body, caught by the handler.
UserErrBodySettle(i) ==
  /\ i \in DOMAIN userTasks /\ userTasks[i].pc = "errbody"
  /\ sent' = <<>>
  /\ \E body \in ErrBodies :
       usersMessage' = SetState(usersMessage,
                                CatchText(ErrorText(body, ThrowFallback(userTasks[i].kind)),
                                          CatchFallback(userTasks[i].kind)))
  /\ UserDone(i, "failed")
  /\ UNCHANGED <<authVars, section, mounted, tabChanges, serverVars, smtpVars, users, usersLoading, newUser, backendVars,
                 notifVars>>

\* createResetLink's 2xx path (lines 439-440).
UserBodySettle(i) ==
  /\ i \in DOMAIN userTasks /\ userTasks[i].pc = "body"
  /\ sent' = <<>>
  /\ usersMessage' = SetState(usersMessage, SuccessText(userTasks[i].kind, userTasks[i].user))
  /\ UserDone(i, "applied")
  /\ UNCHANGED <<authVars, section, mounted, tabChanges, serverVars, smtpVars, users, usersLoading, newUser, backendVars,
                 notifVars>>

\* loadUsers' finally block (line 244); loadUsers then returns to its caller,
\* which has nothing left to do.
ReloadFinally(i, outcome) ==
  /\ usersLoading' = SetState(usersLoading, FALSE)
  /\ UserDone(i, outcome)

\* loadUsers: await fetch("/api/proxy/users") settles (lines 230, 241-242).
ReloadFetchSettle(i) ==
  /\ i \in DOMAIN userTasks /\ userTasks[i].pc = "reload_fetch"
  /\ sent' = <<>>
  /\ \/ /\ ~idealBackend
        /\ error' = SetState(error, CatchText(NetworkError, "Failed to load users"))
        /\ ReloadFinally(i, "reload failed")
     \/ \E st \in AnswerStatuses :
          /\ userTasks' = [userTasks EXCEPT ![i].pc = "reload_unauth", ![i].status = st,
                                            ![i].body = IF idealBackend THEN backend ELSE <<>>]
          /\ event' = NoRecord
          /\ UNCHANGED <<error, usersLoading>>
  /\ UNCHANGED <<me, loading, sessionInvalid, section, mounted, tabChanges, serverVars, smtpVars, users, usersMessage,
                 newUser, backendVars, notifVars>>

\* loadUsers: await handleUnauthorized(response.status) settles (lines 231-237).
ReloadUnauthSettle(i) ==
  /\ i \in DOMAIN userTasks /\ userTasks[i].pc = "reload_unauth"
  /\ sent' = <<>>
  /\ IF HandleUnauthorized(userTasks[i].status)
     THEN /\ sessionInvalid' = TRUE
          /\ ReloadFinally(i, "reload unauthorized")
     ELSE /\ userTasks' = [userTasks EXCEPT
               ![i].pc = IF Ok(userTasks[i].status) THEN "reload_body" ELSE "reload_errbody"]
          /\ event' = NoRecord
          /\ UNCHANGED <<sessionInvalid, usersLoading>>
  /\ UNCHANGED <<me, loading, error, section, mounted, tabChanges, serverVars, smtpVars, users, usersMessage, newUser,
                 backendVars, notifVars>>

\* loadUsers: the non-2xx path (lines 235-236, 242).
ReloadErrBodySettle(i) ==
  /\ i \in DOMAIN userTasks /\ userTasks[i].pc = "reload_errbody"
  /\ sent' = <<>>
  /\ \E body \in ErrBodies :
       error' = SetState(error, CatchText(ErrorText(body, "Failed to load users"),
                                          "Failed to load users"))
  /\ ReloadFinally(i, "reload failed")
  /\ UNCHANGED <<me, loading, sessionInvalid, section, mounted, tabChanges, serverVars, smtpVars, users, usersMessage,
                 newUser, backendVars, notifVars>>

\* loadUsers: the 2xx path (lines 239-240): setUsers(payload.users).
ReloadBodySettle(i) ==
  /\ i \in DOMAIN userTasks /\ userTasks[i].pc = "reload_body"
  /\ sent' = <<>>
  /\ \E list \in GetUsersBodies(userTasks[i]) : users' = SetState(users, list)
  /\ ReloadFinally(i, "reloaded")
  /\ UNCHANGED <<authVars, section, mounted, tabChanges, serverVars, smtpVars, usersMessage, newUser, backendVars, notifVars>>

UserStep(i) ==
  \/ UserFetchSettle(i) \/ UserUnauthSettle(i)
  \/ UserErrBodySettle(i) \/ UserBodySettle(i)
  \/ ReloadFetchSettle(i) \/ ReloadUnauthSettle(i)
  \/ ReloadErrBodySettle(i) \/ ReloadBodySettle(i)

-----------------------------------------------------------------------------
(* Navigation: the section prop changes and the three effects re-run *)

ChangeSection(s) ==
  /\ mounted
  /\ s # section
  /\ SmtpEffectRuns(s, me) => Len(smtpTasks) < MaxSmtpTasks
  /\ UsersEffectRuns(s, me) => Len(userTasks) < MaxUserTasks
  /\ SearchActive(s, me) => Len(searchTasks) < MaxSearchInFlight
  /\ section' = s
  /\ tabChanges' = Min(tabChanges + 1, MaxTabChanges)
  /\ UNCHANGED <<mounted, serverVars>>
  /\ error' = IF SmtpEffectRuns(s, me) THEN "" ELSE error
  /\ SmtpEffect(SmtpEffectRuns(s, me))
  /\ UsersEffect(UsersEffectRuns(s, me))
  /\ SearchEffect(SearchActive(section, me), SearchActive(s, me), employeeSearch)
  /\ sent' = EffectRequests(s, me)
  /\ event' = NoRecord
  /\ UNCHANGED <<me, loading, sessionInvalid, employeeSearch, employees, selectedCardNo,
                 lastSearch, runVars>>

\* The operator leaves the notifications tab for the SMTP tab.
LeaveNotifications == PanelShown("notifications") /\ ChangeSection("smtp")

\* The address is changed by someone the page shows no panel to.
NavigateWithoutPanel(s) == View # "panel" /\ ChangeSection(s)

\* The component unmounts: React runs the cleanup of the last run of the search
\* effect (lines 305-308) and no effect runs again. The calls the abort wakes
\* end in the same turn, their setter calls dropped. The other two effects
\* return no cleanup, so the calls of the other panels stay pending.
Unmount ==
  /\ mounted
  /\ mounted' = FALSE
  /\ timers' = IF SearchActive(section, me) THEN TimersAfterCleanup(timers) ELSE timers
  /\ searchTasks' = IF SearchActive(section, me) THEN TasksAfterCleanup(searchTasks)
                    ELSE searchTasks
  /\ sent' = <<>> /\ event' = NoRecord
  /\ UNCHANGED <<authVars, section, tabChanges, serverVars, smtpVars, usersVars, employeeSearch,
                 employees, selectedCardNo, employeeLoading, chainLen, chainReqs, lastSearch,
                 runVars, notifyMessage>>

-----------------------------------------------------------------------------
(* Server configuration (src/frontend/lib/server-config.ts) *)

\* Strings are sequences of characters here, so that trim, endsWith and slice
\* can be computed.
Chars == {" ", "\r", "/", "a"}

\* What String.prototype.trim removes: the WhiteSpace and LineTerminator code
\* points of ECMAScript. A character that has no escape in a TLA+ string is
\* written by its code point.
WhiteSpace ==
  {"\t", "\n", "U+000B", "\f", "\r", " ", "U+00A0", "U+1680",
   "U+2000", "U+2001", "U+2002", "U+2003", "U+2004", "U+2005", "U+2006", "U+2007",
   "U+2008", "U+2009", "U+200A", "U+2028", "U+2029", "U+202F", "U+205F", "U+3000",
   "U+FEFF"}
EnvStrings == UNION { [1..k -> Chars] : k \in 0..MaxEnvLen }
EnvValues == EnvStrings \cup {Undefined}
Envs == [BACKEND_API_URL : EnvValues, API_BASE_URL : EnvValues,
         NEXT_PUBLIC_API_BASE_URL : EnvValues]

RECURSIVE TrimStart(_)
TrimStart(str) ==
  IF str # <<>> /\ Head(str) \in WhiteSpace THEN TrimStart(Tail(str)) ELSE str

RECURSIVE TrimEnd(_)
TrimEnd(str) ==
  IF str # <<>> /\ str[Len(str)] \in WhiteSpace
  THEN TrimEnd(SubSeq(str, 1, Len(str) - 1)) ELSE str

\* String.prototype.trim
Trim(str) == TrimEnd(TrimStart(str))

\* process.env.X?.trim()
OptionalTrim(v) == IF v = Undefined THEN Undefined ELSE Trim(v)

\* undefined and "" are falsy; a || b
Truthy(v) == v # Undefined /\ v # <<>>
Or(a, b) == IF Truthy(a) THEN a ELSE b

\* raw.endsWith("/")
EndsWithSlash(raw) == raw # <<>> /\ raw[Len(raw)] = "/"

\* A return that removes every trailing "/".
RECURSIVE StripSlash_All(_)
StripSlash_All(raw) ==
  IF EndsWithSlash(raw) THEN StripSlash_All(SubSeq(raw, 1, Len(raw) - 1)) ELSE raw

\* raw.endsWith("/") ? raw.slice(0, -1) : raw  (line 11)
StripSlash(raw) ==
  IF EndsWithSlash(raw) THEN SubSeq(raw, 1, Len(raw) - 1) ELSE raw

ConfigError == "Set BACKEND_API_URL (or API_BASE_URL) to your FastAPI URL."

\* getBackendApiUrl() (lines 3-12): what it returns, or the Error it throws.
GetBackendApiUrl(env) ==
  LET raw == Or(Or(OptionalTrim(env.BACKEND_API_URL), OptionalTrim(env.API_BASE_URL)),
                OptionalTrim(env.NEXT_PUBLIC_API_BASE_URL))
  IN IF ~Truthy(raw)
     THEN [thrown |-> TRUE, message |-> ConfigError]
     ELSE [thrown |-> FALSE, value |-> StripSlash(raw)]

\* A call of getBackendApiUrl on the server.
CallGetBackendApiUrl ==
  /\ apiUrl = NoRecord
  /\ apiUrl' = GetBackendApiUrl(processEnv)
  /\ UNCHANGED <<authVars, section, mounted, tabChanges, smtpVars, usersVars, notifVars,
                 sent, event, processEnv>>

\* The server started under any environment.
InitConfig ==
  /\ InitClient({"smtp"}, FALSE, {<<>>})
  /\ processEnv \in Envs
  /\ apiUrl = NoRecord

NextConfig == CallGetBackendApiUrl

SpecConfig == InitConfig /\ [][NextConfig]_vars

-----------------------------------------------------------------------------
(* Specifications *)

Auth == AuthFail \/ \E role \in Roles : AuthResolve(role)

NextNotif ==
  \/ Auth
  \/ \E t \in SearchTexts : SetEmployeeSearch(t)
  \/ Tick
  \/ \E i \in 1..MaxSearchInFlight : FireTimer(i)
  \/ \E i \in 1..MaxSearchInFlight : SearchStep(i)
  \/ \E c \in CardNos : SelectEmployee(c)
  \/ \E scope \in {"selected", "all"} : ClickRun(scope)
  \/ \E i \in 1..MaxRunTasks : RunStep(i)

NextSearch ==
  \/ Auth
  \/ \E t \in SearchTexts : SetEmployeeSearch(t)
  \/ Tick
  \/ \E i \in 1..MaxSearchInFlight : FireTimer(i)
  \/ \E i \in 1..MaxSearchInFlight : SearchStep(i)
  \/ \E c \in CardNos : SelectEmployee(c)

NextSmtp ==
  \/ Auth
  \/ \E e \in SmtpEdits : EditSmtp(e[1], e[2])
  \/ ClickSaveSmtp
  \/ \E i \in 1..MaxSmtpTasks : SmtpStep(i)

\* No call of the users panel is pending.
UsersIdle == userTasks = <<>>

NextUsers ==
  \/ Auth
  \/ \E e \in NewUserEdits : EditNewUser(e[1], e[2])
  \/ SubmitCreateUser
  \/ \E k \in 1..MaxUsers, role \in Roles : ChangeUserRole(k, role)
  \/ \E k \in 1..MaxUsers : ToggleUser(k)
  \/ \E k \in 1..MaxUsers, answer \in {"", "temp"} : ResetPassword(k, answer)
  \/ \E k \in 1..MaxUsers : CreateResetLink(k)
  \/ \E k \in 1..MaxUsers, confirmed \in BOOLEAN : DeleteUserRow(k, confirmed)
  \/ \E i \in 1..MaxUserTasks : UserStep(i)

\* The operator stays on the users tab.  No control of the users panel is ever
\* disabled, so a handler may start while earlier calls are pending; the
\* exploration follows up to MaxUserTasks calls at a time.
SpecUsers == InitUsers /\ [][NextUsers]_vars

NextRows ==
  \/ Auth
  \/ \E k \in 1..MaxUsers, role \in Roles : ChangeUserRole(k, role)
  \/ \E k \in 1..MaxUsers : ToggleUser(k)
  \/ \E k \in 1..MaxUsers, answer \in {"", "temp"} : ResetPassword(k, answer)
  \/ \E k \in 1..MaxUsers : CreateResetLink(k)
  \/ \E k \in 1..MaxUsers, confirmed \in BOOLEAN : DeleteUserRow(k, confirmed)
  \/ \E i \in 1..MaxUserTasks : UserStep(i)

\* The operator stays on the users tab and works with the controls of the
\* table's rows, without waiting for a call to finish before the next click.
SpecRows == InitUsers /\ [][NextRows]_vars

NextForm ==
  \/ Auth
  \/ \E e \in NewUserEdits : EditNewUser(e[1], e[2])
  \/ SubmitCreateUser
  \/ \E k \in 1..MaxUsers, role \in Roles : ChangeUserRole(k, role)
  \/ \E k \in 1..MaxUsers : CreateResetLink(k)
  \/ \E i \in 1..MaxUserTasks : UserStep(i)

\* The operator stays on the users tab and works with the creation form, the
\* rows' role selectors and their Reset Link buttons, without waiting for a
\* call to finish before the next click or submit.
SpecForm == InitUsers /\ [][NextForm]_vars

\* The operator stays on the SMTP tab.
SpecSmtp == InitSmtp /\ [][NextSmtp]_vars

\* The operator stays on the notifications tab and only searches and selects.
SpecSearch == InitNotifications /\ [][NextSearch]_vars

\* The operator stays on the notifications tab.
SpecNotif == InitNotifications /\ [][NextNotif]_vars

Next ==
  \/ NextSmtp \/ NextUsers \/ NextNotif
  \/ \E s \in Sections : ChangeSection(s)
  \/ Unmount

\* The whole page.
Spec == Init /\ [][Next]_vars

NextPanels ==
  \/ NextSmtp \/ NextNotif
  \/ \E k \in 1..MaxUsers : ToggleUser(k)
  \/ \E k \in 1..MaxUsers : CreateResetLink(k)
  \/ \E k \in 1..MaxUsers, confirmed \in BOOLEAN : DeleteUserRow(k, confirmed)
  \/ \E i \in 1..MaxUserTasks : UserStep(i)
  \/ \E s \in Sections : NavigateWithoutPanel(s)

\* The page opened on any tab; an operator who is shown a panel stays on it,
\* on the users tab with the rows' Enable/Disable, Reset Link and Delete
\* buttons (one handler for each of PATCH, POST and DELETE), clicked without
\* waiting for a call to finish.
SpecPanels == Init /\ [][NextPanels]_vars

NextDispatch ==
  \/ Auth
  \/ Tick
  \/ \E i \in 1..MaxSearchInFlight : FireTimer(i)
  \/ \E i \in 1..MaxSearchInFlight : SearchStep(i)
  \/ \E c \in CardNos : SelectEmployee(c)
  \/ \E scope \in {"selected", "all"} : ClickRun(scope)
  \/ \E i \in 1..MaxRunTasks : RunStep(i)

\* The operator leaves the search box alone, picks an employee of the first
\* result set and dispatches.
SpecDispatch == InitNotifications /\ [][NextDispatch]_vars

NextLeave ==
  \/ Auth
  \/ \E t \in SearchTexts : SetEmployeeSearch(t)
  \/ Tick
  \/ \E i \in 1..MaxSearchInFlight : FireTimer(i)
  \/ \E i \in 1..MaxSearchInFlight : SearchStep(i)
  \/ LeaveNotifications
  \/ Unmount
  \/ \E i \in 1..MaxSmtpTasks : SmtpStep(i)

\* The operator searches on the notifications tab and then leaves for the
\* SMTP tab, or the page is closed.
SpecLeave == InitNotifications /\ [][NextLeave]_vars

\* The users tab opened against a backend that nobody else writes to and
\* that answers every request with a 2xx.
InitOverlap == InitPage({"users"}, TRUE, UserLists \ {<<>>})

NextOverlap ==
  \/ Auth
  \/ \E k \in 1..MaxUsers, role \in Roles : ChangeUserRole(k, role)
  \/ \E k \in 1..MaxUsers : ToggleUser(k)
  \/ \E i \in 1..MaxUserTasks : UserFetchSettle(i)
  \/ \E i \in 1..MaxUserTasks : UserUnauthSettle(i)
  \/ \E i \in 1..MaxUserTasks : ReloadFetchSettle(i)
  \/ \E i \in 1..MaxUserTasks : ReloadUnauthSettle(i)
  \/ \E i \in 1..MaxUserTasks : ReloadBodySettle(i)

\* The operator changes roles and toggles users without waiting for the
\* previous action to finish; every request succeeds.
SpecOverlap == InitOverlap /\ [][NextOverlap]_vars

NextShape ==
  \/ NextDispatch
  \/ \E d \in NotifyDates : SetNotifyDate(d)
  \/ InvokeRunSelected

\* The operator also picks the date, and the handler may be invoked directly.
SpecShape == InitNotifications /\ [][NextShape]_vars

\* The operator moves to another tab; the exploration follows the first
\* MaxTabChanges changes of the section.
SwitchTab(s) ==
  /\ PanelShown(section)
  /\ tabChanges < MaxTabChanges
  /\ ChangeSection(s)

NextTabs ==
  \/ Auth
  \/ \E s \in Sections : SwitchTab(s)
  \/ ClickSaveSmtp
  \/ \E i \in 1..MaxSmtpTasks : SmtpStep(i)
  \/ \E k \in 1..MaxUsers : UsersIdle /\ ToggleUser(k)
  \/ \E i \in 1..MaxUserTasks : UserFetchSettle(i)
  \/ \E i \in 1..MaxUserTasks : UserUnauthSettle(i)
  \/ \E i \in 1..MaxUserTasks : UserErrBodySettle(i)
  \/ \E i \in 1..MaxUserTasks : ReloadFetchSettle(i)
  \/ \E i \in 1..MaxUserTasks : ReloadUnauthSettle(i)
  \/ \E i \in 1..MaxUserTasks : ReloadErrBodySettle(i)
  \/ \E i \in 1..MaxUserTasks : ReloadBodySettle(i)
  \/ Tick
  \/ \E i \in 1..MaxSearchInFlight : FireTimer(i)
  \/ \E i \in 1..MaxSearchInFlight : SearchStep(i)
  \/ ClickRun("all")
  \/ \E i \in 1..MaxRunTasks : RunStep(i)

\* The page opened on any tab; the operator saves, toggles or dispatches there
\* and moves to another tab while requests are pending.
SpecTabs == Init /\ [][NextTabs]_vars

\* No search is scheduled or pending; no dispatch is pending.
SearchIdle == timers = <<>> /\ searchTasks = <<>>
RunIdle == runTasks = <<>>

NextSettle ==
  \/ Auth
  \/ ClickSaveSmtp
  \/ \E i \in 1..MaxSmtpTasks : SmtpStep(i)
  \/ \E i \in 1..MaxUserTasks : ReloadFetchSettle(i)
  \/ \E i \in 1..MaxUserTasks : ReloadUnauthSettle(i)
  \/ \E i \in 1..MaxUserTasks : ReloadErrBodySettle(i)
  \/ \E i \in 1..MaxUserTasks : ReloadBodySettle(i)
  \/ \E t \in SearchTexts : RunIdle /\ SetEmployeeSearch(t)
  \/ Tick
  \/ \E i \in 1..MaxSearchInFlight : FireTimer(i)
  \/ \E i \in 1..MaxSearchInFlight : SearchStep(i)
  \/ SearchIdle /\ RunIdle /\ InvokeRunSelected
  \/ \E scope \in {"selected", "all"} : SearchIdle /\ ClickRun(scope)
  \/ \E i \in 1..MaxRunTasks : RunStep(i)

\* Every request the page has sent is settled by the network, and every
\* promise the page awaits settles: each pending call takes its next step.
\* The operator and the clock are under no obligation.
EveryRequestSettles ==
  /\ \A i \in 1..MaxSmtpTasks : WF_vars(SmtpStep(i))
  /\ \A i \in 1..MaxUserTasks : WF_vars(UserStep(i))
  /\ \A i \in 1..MaxSearchInFlight : WF_vars(SearchStep(i))
  /\ \A i \in 1..MaxRunTasks : WF_vars(RunStep(i))

\* The page opened on any tab and operated there, searches and dispatches
\* taking turns, with every request settling.
SpecSettle == Init /\ [][NextSettle]_vars /\ EveryRequestSettles

NextInvoke ==
  \/ Auth
  \/ InvokeRunSelected
  \/ \E scope \in {"selected", "all"} : ClickRun(scope)
  \/ \E i \in 1..MaxRunTasks : RunStep(i)

\* The dispatch handler invoked directly while no employee has been loaded.
SpecInvoke == InitNotifications /\ [][NextInvoke]_vars

-----------------------------------------------------------------------------
(* Claims *)

DisplayedSearchState == <<employees, selectedCardNo, notifyMessage, employeeLoading>>

\* An employee GET is among the requests rs.
HasEmployeesRequest(rs) == \E k \in DOMAIN rs : rs[k].path = "/api/proxy/employees"

\* C1 (as claimed): a chain of search-text changes, each less than 250ms after
\* the previous one, issues exactly one GET /api/proxy/employees, carrying the
\* text of the final change: never two timers pending, never a second request
\* in a chain, and a chain that is over (a change 250ms or more after its last
\* one starts the next chain) has issued its one request.
C1_ChainIssuesOneRequest ==
  /\ [](Len(timers) <= 1 /\ chainReqs <= 1)
  /\ [][ (employeeSearch' # employeeSearch /\ chainLen >= 1 /\ chainLen' = 1)
           => chainReqs = 1 ]_vars

\* C1 (amended): for every sequence of search-text changes in which each change
\* is handled before the timer of the previous one has fired, exactly one GET
\* /api/proxy/employees is issued, carrying the text of the final change: a
\* change clears the pending timer and issues nothing, so never two timers are
\* pending; a request is issued only by the one pending timer firing, with the
\* current text; and once no timer is pending the last request carries the
\* current text.
C1_DebounceOneRequest ==
  /\ [](/\ Len(timers) <= 1
        /\ chainReqs <= 1
        /\ (SearchActive(section, me) /\ timers = <<>>)
              => (chainReqs = 1 /\ lastSearch = employeeSearch)
        /\ \A k \in DOMAIN sent :
              sent[k].path = "/api/proxy/employees" => sent[k].search = employeeSearch)
  /\ [][ employeeSearch' # employeeSearch
           => (timers' = <<[text |-> employeeSearch', age |-> 0]>> /\ sent' = <<>>) ]_vars
  /\ [][ HasEmployeesRequest(sent')
           => (Len(timers) = 1 /\ timers' = <<>> /\ Len(sent') = 1) ]_vars

\* C1 witness: two or more rapid changes, then the single request of the chain
\* has just been sent with the final text "a".
C1_Witness ==
  /\ chainLen >= 2 /\ chainReqs = 1 /\ timers = <<>>
  /\ employeeSearch = "a"
  /\ sent = <<ReqGetEmployees("a")>>

\* C2 (as claimed): a superseded search request changes nothing that is
\* displayed: the change of the text that supersedes the pending requests
\* leaves the employee list, the selection, the notification message and the
\* loading indicator as they are, and so does every later step of a
\* superseded (aborted) request.
C2_SupersededIsNoOp ==
  /\ [][ (employeeSearch' # employeeSearch /\ searchTasks # <<>>)
           => UNCHANGED DisplayedSearchState ]_vars
  /\ [][ \A i \in DOMAIN searchTasks :
           (searchTasks[i].aborted /\ SearchStep(i)) => UNCHANGED DisplayedSearchState ]_vars

\* The selection the claim prescribes for previous selection cur and result set E.
ClaimedSelection(cur, E) ==
  IF cur # "" /\ (\E k \in DOMAIN E : E[k].card_no = cur) THEN cur
  ELSE IF E # <<>> THEN E[1].card_no
  ELSE ""

\* C3: applying a successful search response with result set E sets the
\* selection to the previous one if it is non-empty and in E, else to the first
\* card number of E, else to ""; after it the selection is empty or the card
\* number of a displayed employee.
C3_SelectionStable ==
  /\ [][ \A i \in DOMAIN searchTasks :
           (SearchBodySettle(i) /\ ~searchTasks[i].aborted)
             => selectedCardNo' = ClaimedSelection(selectedCardNo, employees') ]_vars
  /\ [](event = Finished("search", "applied")
          => (selectedCardNo = ""
              \/ \E k \in DOMAIN employees : employees[k].card_no = selectedCardNo))

\* C3 witness: a response was applied and kept a previous selection that is
\* not the first result.
C3_Witness ==
  /\ event = Finished("search", "applied")
  /\ Len(employees) = 2
  /\ selectedCardNo = employees[2].card_no

\* C7: runNotifications("selected") with an empty selection issues no request
\* and ends with a non-empty message in the notifications message region.
C7_SelectedNeedsEmployee ==
  [][ (PanelShown("notifications") /\ selectedCardNo = "" /\ RunNotifications("selected"))
        => (sent' = <<>> /\ runTasks' = runTasks /\ notifyMessage' # ""
            /\ notifyRunning' = FALSE) ]_vars

\* C7 witness: the handler has just ended on the validation message, with no
\* request sent.
C7_Witness ==
  /\ event = Finished("run", "invalid")
  /\ selectedCardNo = ""
  /\ notifyMessage = ValidationMessage
  /\ sent = <<>>

SmtpApplied ==
  /\ event # NoRecord
  /\ event.kind \in {"load", "save"}
  /\ event.outcome = "applied"

\* C5: right after a successful loadSmtp or saveSmtpSettings response is
\* applied the password of the form buffer is "", whatever the body carried and
\* whatever was typed meanwhile; no step of a load or save sets the password to
\* a non-empty value.
C5_PasswordCleared ==
  /\ [](SmtpApplied => smtpForm.password = "")
  /\ [][ \A i \in DOMAIN smtpTasks :
           SmtpStep(i) => (smtpForm'.password = "" \/ smtpForm'.password = smtpForm.password)
     ]_vars

\* C5 witness: a save response has just been applied over a typed password.
C5_Witness ==
  /\ SmtpApplied /\ event.kind = "save" /\ event.typed
  /\ smtpForm.password = ""

SaveTasks == { i \in DOMAIN smtpTasks : smtpTasks[i].kind = "save" }

\* C6: a save issues exactly one PUT /api/proxy/admin/smtp-settings, at the
\* click, whose body is the whole form buffer of that moment; its later steps
\* issue nothing; with no password typed since the last applied load or save
\* the submitted password is "".
C6_SaveSendsWholeForm ==
  /\ [][ ClickSaveSmtp =>
           sent' = << [method |-> "PUT", path |-> "/api/proxy/admin/smtp-settings",
                       body |-> smtpForm] >> ]_vars
  /\ [][ \A i \in SaveTasks : SmtpStep(i) => sent' = <<>> ]_vars
  /\ [](\A k \in DOMAIN sent :
          (sent[k].method = "PUT" /\ ~typedSince)
            => ("password" \in DOMAIN sent[k].body /\ sent[k].body.password = ""))

\* C6 witness: after a load the host was edited, the password left alone, and
\* the save has just sent the whole buffer with password "".
C6_Witness ==
  /\ sent = << [method |-> "PUT", path |-> "/api/proxy/admin/smtp-settings",
                body |-> smtpForm] >>
  /\ smtpForm.host = "smtp2.example.com" /\ smtpForm.updated_at = "t1"
  /\ smtpForm.password = "" /\ ~typedSince

\* C10: at most one SMTP save request is in flight, and while one is in flight
\* the save control is disabled (smtpSaving).
C10_OneSaveInFlight ==
  /\ Cardinality(SaveTasks) <= 1
  /\ (SaveTasks # {}) => smtpSaving

\* C10 witness: a save is waiting for its response body with the panel shown
\* and its button disabled.
C10_Witness ==
  /\ PanelShown("smtp") /\ smtpSaving
  /\ \E i \in SaveTasks : smtpTasks[i].pc = "body"

\* C4: a create, role change, toggle, temporary password or delete whose
\* request resolves 2xx issues exactly one GET /api/proxy/users: in the step
\* that handles the resolved response, and in no other step of the action.
C4_OneReloadAfterMutation ==
  /\ [][ \A i \in DOMAIN userTasks :
           (userTasks[i].kind \in ReloadingKinds /\ UserStep(i))
             => IF userTasks[i].pc = "unauth" /\ Ok(userTasks[i].status)
                THEN sent' = << [method |-> "GET", path |-> "/api/proxy/users"] >>
                ELSE userTasks[i].pc = "unauth" \/ sent' = <<>> ]_vars
  /\ [](\A i \in DOMAIN userTasks :
          userTasks[i].kind \in ReloadingKinds =>
            /\ userTasks[i].reloads <= 1
            /\ (userTasks[i].reloads = 1) => (userTasks[i].mstatus # 0))
  /\ []((event # NoRecord /\ event.kind \in ReloadingKinds
           /\ event.outcome # "dismissed" /\ Ok(event.mstatus))
          => event.reloads = 1)

\* C4 witness: a delete that got a 2xx has just finished, its one reload applied.
C4_Witness ==
  /\ event # NoRecord /\ event.kind = "deleteUserRow"
  /\ event.outcome = "reloaded" /\ Ok(event.mstatus) /\ event.reloads = 1

\* C8 (as claimed): whenever a request of any panel gets a 401, the step that
\* learns it from handleUnauthorized ends the action: nothing is sent, no
\* panel message is written, and the call is over.
C8_UnauthorizedShortCircuits ==
  [][ /\ \A i \in DOMAIN userTasks :
           (userTasks[i].pc \in {"unauth", "reload_unauth"}
              /\ HandleUnauthorized(userTasks[i].status) /\ UserStep(i))
             => (sent' = <<>> /\ usersMessage' = usersMessage
                 /\ Len(userTasks') < Len(userTasks))
      /\ \A i \in DOMAIN smtpTasks :
           (smtpTasks[i].pc = "unauth"
              /\ HandleUnauthorized(smtpTasks[i].status) /\ SmtpStep(i))
             => (sent' = <<>> /\ smtpMessage' = smtpMessage
                 /\ Len(smtpTasks') < Len(smtpTasks))
      /\ \A i \in DOMAIN searchTasks :
           (searchTasks[i].pc = "unauth"
              /\ HandleUnauthorized(searchTasks[i].status) /\ SearchStep(i))
             => (sent' = <<>> /\ notifyMessage' = notifyMessage
                 /\ Len(searchTasks') < Len(searchTasks))
      /\ \A i \in DOMAIN runTasks :
           (runTasks[i].pc = "unauth"
              /\ HandleUnauthorized(runTasks[i].status) /\ RunStep(i))
             => (sent' = <<>> /\ notifyMessage' = notifyMessage
                 /\ Len(runTasks') < Len(runTasks))
    ]_vars

\* C9: an unresolved identity sees only the loading placeholder, a resolved
\* non-admin only the access-denied view, a panel is shown only to an admin;
\* and no panel request is issued, scheduled or in flight unless the role is
\* admin.
C9_RoleGate ==
  /\ (mounted /\ me = "none") => View = "loading"
  /\ (mounted /\ me = "inspector") => View = "denied"
  /\ View = "panel" => me = "admin"
  /\ sent # <<>> => me = "admin"
  /\ me # "admin" =>
       (timers = <<>> /\ searchTasks = <<>> /\ runTasks = <<>>
        /\ smtpTasks = <<>> /\ userTasks = <<>>)

\* C9 witness: an inspector has been resolved on the notifications tab and is
\* shown the access-denied view, with nothing requested.
C9_Witness ==
  /\ me = "inspector" /\ section = "notifications" /\ View = "denied"
  /\ sent = <<>> /\ timers = <<>>

IsRunRequest(r) == r.method = "POST" /\ r.path = "/api/proxy/notifications/run"

\* C11: at most one dispatch is in flight; while one is, notifyRunning is set
\* and both dispatch buttons are disabled; no step issues a POST
\* /api/proxy/notifications/run while a dispatch is pending, and a step issues
\* at most one.
C11_OneDispatchInFlight ==
  /\ [](Len(runTasks) <= 1)
  /\ [](runTasks # <<>> =>
          (notifyRunning /\ RunDisabled("selected") /\ RunDisabled("all")))
  /\ [][ (\E k \in DOMAIN sent' : IsRunRequest(sent'[k]))
          => (runTasks = <<>> /\ Len(sent') = 1) ]_vars

\* C11 witness: a dispatch for the selected employee is waiting for its
\* response body with both buttons disabled.
C11_Witness ==
  /\ PanelShown("notifications") /\ selectedCardNo # ""
  /\ Len(runTasks) = 1 /\ runTasks[1].pc = "body"
  /\ notifyRunning /\ RunDisabled("selected") /\ RunDisabled("all")

RunApplied == event = Finished("run", "applied")

\* C12: no report is displayed while a dispatch is pending (starting a run
\* clears the previous report); the report changes only by being cleared or by
\* the step that applies a 2xx dispatch response, which sets it to one whole
\* response body; a run that fails leaves no report.
C12_ReportReplacedWholesale ==
  /\ [](runTasks # <<>> => notifyResult = NoRecord)
  /\ [](notifyResult # NoRecord => notifyResult \in Reports)
  /\ [][ notifyResult' # notifyResult
          => (notifyResult' = NoRecord
              \/ (RunApplied' /\ \E i \in DOMAIN runTasks : RunBodySettle(i))) ]_vars
  /\ []((event # NoRecord /\ event.kind = "run" /\ event.outcome # "applied")
          => notifyResult = NoRecord)

\* C12 witness: a 2xx dispatch response has just been applied as the displayed
\* report and nothing is pending.
C12_Witness ==
  /\ RunApplied
  /\ notifyResult = [date |-> "2024-05-01", total_targets |-> 2, sent_count |-> 0]
  /\ sent = <<>> /\ runTasks = <<>> /\ ~notifyRunning

SaveFailed(e) == e # NoRecord /\ e.kind = "save" /\ e.outcome = "failed"

\* The texts a failed save can show: the network error, the body's error or
\* detail, or the fallback.
SaveErrorTexts ==
  {NetworkError} \cup { ErrorText(body, SmtpFallback("save")) : body \in ErrBodies }

\* C13: the step in which a save fails (network error, or a non-2xx answer
\* other than 401) sets the SMTP message to the error text and leaves every
\* field of the form buffer as it was; no step of a save other than applying a
\* 2xx body changes the form.
C13_FailedSaveKeepsForm ==
  /\ [][ \A i \in SaveTasks :
           (SmtpStep(i) /\ SaveFailed(event'))
             => (smtpForm' = smtpForm /\ smtpMessage' \in SaveErrorTexts) ]_vars
  /\ [][ \A i \in SaveTasks :
           (SmtpStep(i) /\ smtpTasks[i].pc # "body") => smtpForm' = smtpForm ]_vars
  /\ [](SaveFailed(event) => (smtpMessage # "" /\ ~smtpSaving))

\* C13 witness: a save has just failed on a 500 whose body names a detail,
\* with the edited host and the typed password still in the form.
C13_Witness ==
  /\ SaveFailed(event) /\ event.typed
  /\ smtpMessage = "backend detail"
  /\ smtpForm.password = "typed" /\ smtpForm.host = "smtp2.example.com"

CreateTasks == { i \in DOMAIN userTasks : userTasks[i].kind = "createUser" }

CreateFailed(e) == e # NoRecord /\ e.kind = "createUser" /\ e.outcome = "failed"

\* C14: the step of createUser that handles a 2xx answer resets the creation
\* form to empty email, username and password with role inspector and issues
\* the list reload; every other step of createUser leaves the form as it is
\* and issues nothing, so a create that fails (network error, or non-2xx other
\* than 401) ends with the entered values in the form and without a reload.
C14_CreateResetsOrKeepsForm ==
  /\ [][ \A i \in CreateTasks :
           UserStep(i) =>
             IF userTasks[i].pc = "unauth" /\ Ok(userTasks[i].status)
             THEN /\ newUser' = [email |-> "", username |-> "", password |-> "",
                                 role |-> "inspector"]
                  /\ sent' = << [method |-> "GET", path |-> "/api/proxy/users"] >>
             ELSE /\ sent' = <<>>
                  /\ userTasks[i].reloads = 0 => newUser' = newUser ]_vars
  /\ [](CreateFailed(event) => (event.reloads = 0 /\ usersMessage # ""))

\* C14 witness: a create has just failed on a 500 with the whole form, role
\* admin included, still filled in.
C14_Witness ==
  /\ CreateFailed(event) /\ event.mstatus = 500
  /\ newUser = [email |-> "carol@example.com", username |-> "carol",
                password |-> "secret", role |-> "admin"]
  /\ usersMessage = "backend error"

\* C15: a temporary-password prompt answered empty or cancelled, and a delete
\* confirmation declined, send nothing and leave the users list, the users
\* message and the pending calls as they are; a PATCH with a password carries
\* the non-empty answer; a DELETE is sent only by a confirmed click, for the
\* row clicked; and the step of deleteUserRow that handles a 2xx answer issues
\* the list reload.
C15_InteractiveGates ==
  /\ [][ \A k \in DOMAIN users :
           (ResetPassword(k, "") \/ DeleteUserRow(k, FALSE))
             => (sent' = <<>> /\ UNCHANGED <<users, usersMessage, userTasks>>) ]_vars
  /\ [][ \A j \in DOMAIN sent' :
           /\ (sent'[j].method = "PATCH" /\ "password" \in DOMAIN sent'[j].body)
                => sent'[j].body.password # ""
           /\ sent'[j].method = "DELETE"
                => \E k \in DOMAIN users :
                     /\ DeleteUserRow(k, TRUE)
                     /\ sent' = << [method |-> "DELETE", path |-> "/api/proxy/users/{id}",
                                    id |-> users[k].id] >> ]_vars
  /\ [][ \A i \in DOMAIN userTasks :
           (userTasks[i].kind = "deleteUserRow" /\ userTasks[i].pc = "unauth"
              /\ Ok(userTasks[i].status) /\ UserStep(i))
             => sent' = << [method |-> "GET", path |-> "/api/proxy/users"] >> ]_vars

\* C15 witness: a delete confirmation has just been declined while a list and
\* an earlier message are displayed; both are still there and nothing was sent.
C15_Witness ==
  /\ event = Finished("deleteUserRow", "dismissed")
  /\ Len(users) = 2 /\ usersMessage # ""
  /\ sent = <<>> /\ userTasks = <<>>

IsEmployeesRequest(r) == r.method = "GET" /\ r.path = "/api/proxy/employees"

\* The notifications panel is deactivated: the section is another one, or the
\* component is unmounted.
Deactivated == ~mounted \/ ~SearchActive(section, me)

\* C16, timer part: while the notifications panel is deactivated no debounce
\* timer is pending, every search request still in flight is aborted, and no
\* GET /api/proxy/employees is issued.
C16_TimerClearedAndAborted ==
  /\ [](Deactivated =>
          (timers = <<>> /\ \A i \in DOMAIN searchTasks : searchTasks[i].aborted))
  /\ [][ Deactivated'
          => \A k \in DOMAIN sent' : ~IsEmployeesRequest(sent'[k]) ]_vars

\* C16 (as claimed): deactivating the notifications panel (a change of section
\* or an unmount) clears the pending timer and aborts the search in flight,
\* and neither the deactivating step nor a later step of a search changes the
\* employee list, the selection or the message.
C16_NoUpdateAfterDeactivation ==
  /\ C16_TimerClearedAndAborted
  /\ [][ (Deactivated' /\ ~Deactivated)
           => UNCHANGED <<employees, selectedCardNo, notifyMessage>> ]_vars
  /\ [][ \A i \in DOMAIN searchTasks :
           (Deactivated /\ SearchStep(i))
             => UNCHANGED <<employees, selectedCardNo, notifyMessage>> ]_vars

UsersKinds == ReloadingKinds \cup {"createResetLink", "loadUsers"}

UsersFailed(e) ==
  e # NoRecord /\ e.kind \in UsersKinds /\ e.outcome \in {"failed", "reload failed"}

UsersSucceeded(e) ==
  e # NoRecord /\ e.kind \in UsersKinds /\ e.outcome \in {"reloaded", "applied"}

SmtpFailed(e) == e # NoRecord /\ e.kind \in {"load", "save"} /\ e.outcome = "failed"

\* The texts a failed request of the users panel can produce.
UsersFailureTexts ==
  {NetworkError, "backend error", "backend detail"}
    \cup { ThrowFallback(k) : k \in UsersKinds } \cup { CatchFallback(k) : k \in UsersKinds }

\* C17 (as claimed): when a call of the users or the SMTP panel ends on a
\* failed request, that panel's message region shows a message; a step that
\* starts a new call of a panel leaves the panel's region and the page free of
\* earlier messages; and when a call of the users panel has succeeded no
\* failure text is displayed, in the region or in the page's error banner.
C17_MessageRegions ==
  /\ [](UsersFailed(event) => usersMessage # "")
  /\ [](SmtpFailed(event) => smtpMessage # "")
  /\ [][ Len(userTasks') > Len(userTasks) => (usersMessage' = "" /\ error' = "") ]_vars
  /\ [][ Len(smtpTasks') > Len(smtpTasks) => (smtpMessage' = "" /\ error' = "") ]_vars
  /\ [](UsersSucceeded(event) => (error = "" /\ usersMessage \notin UsersFailureTexts))

\* C18: the displayed users list is the initial empty list or a users array
\* the backend can answer GET /api/proxy/users with, and it changes only in
\* the step of loadUsers that applies the body of a 2xx GET, to that body: no
\* other step of any handler touches it.
C18_ListOnlyFromGet ==
  /\ [](users = <<>> \/ users \in UserLists)
  /\ [][ users' # users
          => \E i \in DOMAIN userTasks :
               /\ userTasks[i].pc = "reload_body" /\ Ok(userTasks[i].status)
               /\ ReloadBodySettle(i)
               /\ users' \in GetUsersBodies(userTasks[i]) ]_vars

\* C18 witness: a confirmed delete has just been rejected with a 500 and both
\* rows are still displayed.
C18_Witness ==
  /\ event # NoRecord /\ event.kind = "deleteUserRow" /\ event.outcome = "failed"
  /\ event.mstatus = 500
  /\ Len(users) = 2

\* C19 (as claimed): with every request succeeding and nobody else writing,
\* once no request of the users panel is in flight the list displayed to the
\* admin equals the backend's collection.
C19_ListEqualsBackendWhenIdle ==
  (idealBackend /\ me = "admin" /\ userTasks = <<>>) => users = backend

\* C20 (as claimed): a toggle click sends a PATCH whose is_active is the
\* negation of the clicked row's value, and every toggle PATCH that succeeds
\* inverts the backend's is_active of that user (so that two succeeding
\* toggles of a user restore the original value), also when the click came
\* before the reload of an earlier toggle was applied.
C20_ToggleInverts ==
  /\ [][ \A k \in DOMAIN users :
           ToggleUser(k)
             => sent' = << [method |-> "PATCH", path |-> "/api/proxy/users/{id}",
                            id |-> users[k].id,
                            body |-> [is_active |-> ~users[k].is_active]] >> ]_vars
  /\ [][ \A i \in DOMAIN userTasks :
           (idealBackend /\ userTasks[i].kind = "toggleUser" /\ UserFetchSettle(i))
             => \A j \in DOMAIN backend :
                  backend[j].id = userTasks[i].req.id
                    => backend'[j].is_active = ~backend[j].is_active ]_vars

\* C21: an invocation of runNotifications issues at most one request: none when
\* scope is "selected" and nothing is selected, else exactly one POST
\* /api/proxy/notifications/run without a body, whose query carries the chosen
\* date and nothing else for scope "all", and the chosen date and the card
\* number selected at the click for scope "selected"; the later steps of the
\* invocation issue nothing.
C21_DispatchRequestShape ==
  /\ [][ \A scope \in {"selected", "all"} :
           (PanelShown("notifications") /\ RunNotifications(scope)) =>
             IF scope = "selected" /\ selectedCardNo = ""
             THEN sent' = <<>>
             ELSE /\ Len(sent') = 1
                  /\ sent'[1].method = "POST"
                  /\ sent'[1].path = "/api/proxy/notifications/run"
                  /\ "body" \notin DOMAIN sent'[1]
                  /\ sent'[1].date = notifyDate
                  /\ IF scope = "all"
                     THEN DOMAIN sent'[1] = {"method", "path", "date"}
                     ELSE /\ DOMAIN sent'[1] = {"method", "path", "date", "card_no"}
                          /\ sent'[1].card_no = selectedCardNo ]_vars
  /\ [][ \A i \in DOMAIN runTasks : RunStep(i) => sent' = <<>> ]_vars

\* C21 witness: with the date changed and the second employee selected, the
\* dispatch for the selected employee has just been sent.
C21_Witness ==
  /\ notifyDate = "2024-05-02" /\ selectedCardNo = "C2"
  /\ Len(employees) = 2 /\ employees[1].card_no = "C1"
  /\ Len(runTasks) = 1 /\ runTasks[1].pc = "fetch"
  /\ sent = << [method |-> "POST", path |-> "/api/proxy/notifications/run",
                date |-> "2024-05-02", card_no |-> "C2"] >>

\* What each panel displays.
SmtpDisplayed == <<smtpForm, smtpLoading, smtpSaving, smtpMessage>>
UsersDisplayed == <<users, usersLoading, usersMessage, newUser>>
NotifDisplayed == <<notifyDate, notifyRunning, notifyResult, notifyMessage,
                    employeeSearch, employees, selectedCardNo, employeeLoading>>

\* The read request the activation of a section issues at once.
ActivationReads(s) ==
  CASE s = "smtp" -> << [method |-> "GET", path |-> "/api/proxy/admin/smtp-settings"] >>
    [] s = "users" -> << [method |-> "GET", path |-> "/api/proxy/users"] >>
    [] s = "notifications" -> <<>>

\* C22 (as claimed): every action and every response handler of a panel
\* leaves what the other two panels display unchanged, the error text shown
\* while another panel is the active one included; and a change of section
\* issues the read request of the section activated and no other.
C22_PanelIsolation ==
  /\ [][ (ClickSaveSmtp \/ \E i \in DOMAIN smtpTasks : SmtpStep(i))
          => (UNCHANGED <<UsersDisplayed, NotifDisplayed>>
              /\ (section # "smtp" => error' = error)) ]_vars
  /\ [][ ((\E k \in DOMAIN users : ToggleUser(k)) \/ \E i \in DOMAIN userTasks : UserStep(i))
          => (UNCHANGED <<SmtpDisplayed, NotifDisplayed>>
              /\ (section # "users" => error' = error)) ]_vars
  /\ [][ (\/ \E scope \in {"selected", "all"} : ClickRun(scope)
          \/ \E i \in DOMAIN runTasks : RunStep(i)
          \/ \E i \in DOMAIN timers : FireTimer(i)
          \/ \E i \in DOMAIN searchTasks : SearchStep(i))
          => (UNCHANGED <<SmtpDisplayed, UsersDisplayed>>
              /\ (section # "notifications" => error' = error)) ]_vars
  /\ [][ section' # section => sent' = ActivationReads(section') ]_vars

IsPrefix(old, new) == Len(old) <= Len(new) /\ SubSeq(new, 1, Len(old)) = old

\* C23: a change of section cancels nothing but the employee search: the
\* pending SMTP, users and dispatch calls stay pending as they are (the search
\* requests of the panel left are aborted), each of them can take its next
\* step whichever panel is active, and the step that ends such a call while
\* its panel is not the active one still writes that panel's state: a 2xx
\* body is applied (form, users list, report), a failure is reported, and the
\* busy flag is reset.
C23_OnlySearchCancelled ==
  /\ [][ section' # section =>
           /\ IsPrefix(smtpTasks, smtpTasks') /\ IsPrefix(userTasks, userTasks')
           /\ runTasks' = runTasks
           /\ (section = "notifications" /\ me = "admin")
                => \A i \in DOMAIN searchTasks' : searchTasks'[i].aborted ]_vars
  /\ [](/\ \A i \in DOMAIN smtpTasks : ENABLED SmtpStep(i)
        /\ \A i \in DOMAIN userTasks : ENABLED UserStep(i)
        /\ \A i \in DOMAIN runTasks : ENABLED RunStep(i))
  /\ [][ \A i \in DOMAIN smtpTasks :
           (section # "smtp" /\ SmtpStep(i) /\ Len(smtpTasks') < Len(smtpTasks)) =>
             /\ IF smtpTasks[i].kind = "load" THEN ~smtpLoading' ELSE ~smtpSaving'
             /\ smtpTasks[i].pc = "body" =>
                  \E payload \in SmtpPayloads : smtpForm' = MergeForm(smtpForm, payload)
             /\ (smtpTasks[i].kind = "save" /\ smtpTasks[i].pc = "body")
                  => smtpMessage' = "SMTP settings saved."
             /\ (smtpTasks[i].kind = "save" /\ smtpTasks[i].pc \in {"fetch", "errbody"})
                  => smtpMessage' \in SaveErrorTexts ]_vars
  /\ [][ \A i \in DOMAIN userTasks :
           (section # "users" /\ UserStep(i) /\ Len(userTasks') < Len(userTasks)) =>
             /\ userTasks[i].pc = "reload_body" => (users' \in UserLists /\ ~usersLoading')
             /\ userTasks[i].pc \in {"fetch", "errbody"} => usersMessage' \in UsersFailureTexts
        ]_vars
  /\ [][ \A i \in DOMAIN runTasks :
           (section # "notifications" /\ RunStep(i) /\ Len(runTasks') < Len(runTasks)) =>
             /\ ~notifyRunning'
             /\ runTasks[i].pc = "body" => notifyResult' \in Reports
             /\ runTasks[i].pc \in {"fetch", "errbody"} => notifyMessage' # "" ]_vars

\* C23 witness: the operator has left the notifications tab with a dispatch
\* pending, and its 2xx answer has just been applied as the report.
C23_Witness ==
  /\ PanelShown(section) /\ section # "notifications"
  /\ RunApplied /\ notifyResult \in Reports /\ ~notifyRunning

LoadTasks == { i \in DOMAIN smtpTasks : smtpTasks[i].kind = "load" }
ReloadPcs == {"reload_fetch", "reload_unauth", "reload_errbody", "reload_body"}
ReloadTasks == { i \in DOMAIN userTasks : userTasks[i].pc \in ReloadPcs }

\* C24: the step that ends an SMTP load, an SMTP save, a users load, an
\* employee search or a dispatch resets that call's busy flag, whatever the
\* outcome (2xx, non-2xx, 401, network error, abort, local validation
\* failure); with no such call pending the flag is false; and, every request
\* settling, a busy flag that is set is eventually reset.
C24_BusyFlagsReset ==
  /\ [][ /\ \A i \in DOMAIN smtpTasks :
             (SmtpStep(i) /\ Len(smtpTasks') < Len(smtpTasks))
               => IF smtpTasks[i].kind = "load" THEN ~smtpLoading' ELSE ~smtpSaving'
         /\ \A i \in ReloadTasks :
             (UserStep(i) /\ Len(userTasks') < Len(userTasks)) => ~usersLoading'
         /\ \A i \in DOMAIN searchTasks :
             (SearchStep(i) /\ Len(searchTasks') < Len(searchTasks)) => ~employeeLoading'
         /\ \A i \in DOMAIN runTasks :
             (RunStep(i) /\ Len(runTasks') < Len(runTasks)) => ~notifyRunning' ]_vars
  /\ [](event = Finished("run", "invalid") => ~notifyRunning)
  /\ [](/\ LoadTasks = {} => ~smtpLoading
        /\ SaveTasks = {} => ~smtpSaving
        /\ ReloadTasks = {} => ~usersLoading
        /\ searchTasks = <<>> => ~employeeLoading
        /\ runTasks = <<>> => ~notifyRunning)
  /\ (smtpLoading ~> ~smtpLoading)
  /\ (smtpSaving ~> ~smtpSaving)
  /\ (usersLoading ~> ~usersLoading)
  /\ (employeeLoading ~> ~employeeLoading)
  /\ (notifyRunning ~> ~notifyRunning)

\* C24 witness: a search superseded by a new keystroke has just ended on its
\* abort and the loading flag is reset.
C24_Witness ==
  /\ event = Finished("search", "aborted")
  /\ ~employeeLoading /\ searchTasks = <<>>
  /\ employeeSearch = "a"

\* C25 (as claimed): usersLoading is set whenever a GET /api/proxy/users is in
\* flight, and employeeLoading is set whenever a search request that has not
\* been superseded is in flight.
C25_BusyTracksInFlight ==
  /\ (\E i \in DOMAIN userTasks : userTasks[i].pc = "reload_fetch") => usersLoading
  /\ (\E i \in DOMAIN searchTasks :
         searchTasks[i].pc = "fetch" /\ ~searchTasks[i].aborted) => employeeLoading

\* The rows the backend can list, and the success texts of the handlers that
\* reload and of createResetLink.
ListedRows == UNION { { l[k] : k \in DOMAIN l } : l \in UserLists }
ReloadSuccessTexts ==
  {SuccessText("createUser", NoRecord)}
    \cup { SuccessText(kind, u) : kind \in ReloadingKinds \ {"createUser"}, u \in ListedRows }
ResetLinkTexts == { SuccessText("createResetLink", u) : u \in ListedRows }

ReloadedAction(e) ==
  /\ e # NoRecord /\ e.kind \in ReloadingKinds
  /\ e.outcome # "dismissed" /\ e.reloads = 1

\* C26 (as claimed): for an admin, the step in which createUser,
\* changeUserRole, toggleUser, resetPassword or deleteUserRow starts its reload
\* leaves the users message empty; when such an action has finished after its
\* reload the users message is empty, so none of their success texts is
\* displayed then; and a createResetLink that succeeded ends with its success
\* text displayed.
C26_SuccessTextCleared ==
  /\ [][ \A i \in DOMAIN userTasks :
           (me = "admin" /\ userTasks[i].kind \in ReloadingKinds
              /\ userTasks[i].pc = "unauth" /\ UserStep(i)
              /\ sent' = << [method |-> "GET", path |-> "/api/proxy/users"] >>)
             => usersMessage' = "" ]_vars
  /\ []((me = "admin" /\ ReloadedAction(event))
          => (usersMessage = "" /\ usersMessage \notin ReloadSuccessTexts))
  /\ []((event # NoRecord /\ event.kind = "createResetLink" /\ event.outcome = "applied")
          => usersMessage \in ResetLinkTexts)

\* C26 (amended): for an admin, the step in which createUser, changeUserRole,
\* toggleUser, resetPassword or deleteUserRow starts its reload leaves the
\* users message empty, and no later step of that action writes the users
\* message, so the message is still empty when the action finishes unless a
\* step of another users call has written it in between; none of the five
\* success texts is ever displayed, and what is displayed when such an action
\* finishes is nothing, a failure text or a reset-link text of another call;
\* a createResetLink that succeeded ends with its success text displayed.
C26_SuccessTextNeverStays ==
  /\ [][ \A i \in DOMAIN userTasks :
           (me = "admin" /\ userTasks[i].kind \in ReloadingKinds
              /\ userTasks[i].pc = "unauth" /\ UserStep(i)
              /\ sent' = << [method |-> "GET", path |-> "/api/proxy/users"] >>)
             => usersMessage' = "" ]_vars
  /\ [][ \A i \in DOMAIN userTasks :
           (userTasks[i].kind \in ReloadingKinds /\ userTasks[i].pc \in ReloadPcs
              /\ UserStep(i))
             => usersMessage' = usersMessage ]_vars
  /\ [](me = "admin" => usersMessage \notin ReloadSuccessTexts)
  /\ []((me = "admin" /\ ReloadedAction(event))
          => usersMessage \in {""} \cup UsersFailureTexts \cup ResetLinkTexts)
  /\ []((event # NoRecord /\ event.kind = "createResetLink" /\ event.outcome = "applied")
          => usersMessage \in ResetLinkTexts)

\* C26 witness: a role change that got a 2xx has just finished, its reload
\* applied, while the success text of a reset link generated in the meantime
\* is displayed.
C26_Witness ==
  /\ me = "admin"
  /\ event # NoRecord /\ event.kind = "changeUserRole" /\ event.outcome = "reloaded"
  /\ Ok(event.mstatus) /\ event.reloads = 1
  /\ usersMessage \in ResetLinkTexts /\ users # <<>>

\* The variables in priority order.
EnvInOrder(env) == <<env.BACKEND_API_URL, env.API_BASE_URL, env.NEXT_PUBLIC_API_BASE_URL>>

\* v is unset or holds nothing but white space.
Blank(v) == v = Undefined \/ \A k \in DOMAIN v : v[k] \in WhiteSpace

\* t is v without its leading and trailing white space.
IsTrimmed(t, v) ==
  \E i \in 1..(Len(v) + 1), j \in 0..Len(v) :
    /\ t = SubSeq(v, i, j)
    /\ \A k \in 1..(i - 1) : v[k] \in WhiteSpace
    /\ \A k \in (j + 1)..Len(v) : v[k] \in WhiteSpace
    /\ t # <<>> => (t[1] \notin WhiteSpace /\ t[Len(t)] \notin WhiteSpace)

\* C27: getBackendApiUrl throws exactly when BACKEND_API_URL, API_BASE_URL and
\* NEXT_PUBLIC_API_BASE_URL are all unset or blank; otherwise it returns the
\* trimmed value of the first of them, in that order, that is not blank,
\* without its last character when that is "/" (one "/" only).
C27_BackendApiUrl ==
  apiUrl # NoRecord =>
    LET vs == EnvInOrder(processEnv)
        set == { k \in 1..3 : ~Blank(vs[k]) }
    IN IF set = {}
       THEN apiUrl.thrown
       ELSE LET first == CHOOSE k \in set : \A m \in set : k <= m IN
            /\ ~apiUrl.thrown
            /\ \E t \in EnvStrings :
                 /\ IsTrimmed(t, vs[first])
                 /\ apiUrl.value = IF t[Len(t)] = "/" THEN SubSeq(t, 1, Len(t) - 1) ELSE t

\* C27 witness: BACKEND_API_URL is blank (a carriage return), API_BASE_URL
\* holds "//" and the third variable a value of its own; the call returned "/".
C27_Witness ==
  /\ processEnv = [BACKEND_API_URL |-> <<"\r">>, API_BASE_URL |-> <<"/", "/">>,
                   NEXT_PUBLIC_API_BASE_URL |-> <<"a">>]
  /\ apiUrl = [thrown |-> FALSE, value |-> <<"/">>]

====
